---- MODULE Spec2Model ----
(***************************************************************************)
(* State-machine model of myclaw: the agent loop (src/ai.ts), the tool     *)
(* registry (src/tools/index.ts), the background-task manager              *)
(* (sessions-spawn.ts, subagents.ts) and the scheduler (src/tools/cron.ts).*)
(***************************************************************************)
EXTENDS Integers, Sequences, FiniteSets, TLC

\* ------------------------------------------------------------------------
\* Bounds of the model
\* ------------------------------------------------------------------------
\* cap on the model calls of one exchange (the Anthropic loop has no bound)
MaxModelCalls == 12
\* background-task ids handed out in one run
MaxTasks == 6
\* timeout expiries, kill / kill-all / steer requests and failed model calls
\* in one run, taken together
MaxFaults == 1
\* tasks spawned by a user other than u1
MaxOtherTasks == 1
\* scheduled-job ids handed out in one run
MaxJobs == 1
\* last instant of the clock
MaxTime == 2
\* tool calls requested by one model turn
MaxCallsPerTurn == 2
\* tasks spawned, and timeouts / kills / steers / failed model calls, in one
\* run of the task life-cycle scenarios
MaxLifeTasks == 2
MaxLifeFaults == 2
\* firings (executeJob calls) started in one run
MaxRuns == 2
\* events in one webhook batch
MaxEvents == 3
\* messages pushed by sessions_send in one run
MaxSends == 1
\* minutes of wall-clock time followed by the web cache
MaxMinutes == 16
\* exchanges started while following the media results of chat()
MaxExchanges == 3

\* ------------------------------------------------------------------------
\* Program constants
\* ------------------------------------------------------------------------
\* ai.ts: let maxLoops = 10 (chatGemini, chatOllama)
MAX_LOOPS == 10

\* sessions-spawn.ts: const MAX_CHILDREN = 5
MAX_CHILDREN == 5
\* web-shared.ts: the default time to live of a cache entry
DEFAULT_CACHE_TTL_MINUTES == 15
\* web-fetch.ts: const DEFAULT_FETCH_MAX_REDIRECTS = 3
DEFAULT_FETCH_MAX_REDIRECTS == 3
\* subagents.ts: getTasksFromDb(dataDir, 100) in the status action
STATUS_ROW_LIMIT == 100
\* tasks spawned in one run of the status model, and handles held at a time
MaxCreated == 102
MaxRegistered == 1
\* jobs added in one run of the recipient model
MaxOwnedJobs == 2
\* the last instant of the one-shot timer model, in ticks
MaxInstant == 6
\* the largest delay the timer holds (2^31 - 1 ms in the runtime), in ticks
TIMEOUT_MAX == 3
\* web-shared.ts: the capacity of a cache map
DEFAULT_CACHE_MAX_ENTRIES == 100
\* the keys written in one run of the cache map model, plus one
MaxCacheKeys == 103
\* the last tick of the cache map model
MaxCacheNow == 2
\* the time to live of the entries written, in ticks
CacheTtl == 1
\* the reads that delete an entry, in one run of the cache map model
MaxStaleReads == 2

\* LINE user ids
Users == {"u1", "u2"}

Providers == {"gemini", "ollama", "anthropic"}

\* MediaData.mimeType, by its prefix; "none" is an exchange without media
MediaKinds == {"none", "image", "video", "audio", "file"}
BinaryMedia == {"image", "video", "audio"}

\* tools/index.ts allTools, in registration order
allTools ==
  << "datetime", "web_search", "web_fetch", "memory_search", "memory_get",
     "image", "tts", "message", "session_status", "sessions_list",
     "sessions_history", "agents_list", "cron", "sessions_spawn",
     "subagents", "gateway", "canvas", "browser", "nodes", "sessions_send" >>

\* tool names a model turn may request: two of the catalog, two outside it
RequestedNames == {"cron", "subagents", "no_such_tool", ""}

\* what a registered handler does when it is invoked
HandlerOutcomes == {"returns", "throws"}

\* a name outside the catalog has no handler
NoHandler == "none"

\* the message of the error a failing handler throws
HandlerError == "handler failed"

\* one tool call of a model turn: the requested name, and what the handler
\* of that name does if it is invoked
ToolCalls ==
  {c \in [name : RequestedNames, handler : HandlerOutcomes \cup {NoHandler}] :
     (c.handler = NoHandler) <=> (\A i \in 1..Len(allTools) : allTools[i] # c.name)}

\* the tool calls of one model turn, in the order the model lists them
CallLists == UNION {[1..n -> ToolCalls] : n \in 1..MaxCallsPerTurn}

Undefined == "undefined"
NoTool == [name |-> "-", result |-> <<>>, invoked |-> FALSE, rejected |-> FALSE]

VARIABLES
  env,          \* process.env: which provider settings are present
  chatPc,       \* position of the exchange in chat()
  media,        \* media kind carried by the user turn
  maxLoops,     \* chatGemini / chatOllama loop counter
  modelCalls,   \* model calls made so far in this exchange
  geminiFailed, \* chatGemini threw in this exchange
  fellBack,     \* chat() restarted the exchange on Ollama
  mediaSent,    \* providers that were sent the media of this exchange
  lastTool,     \* the last executeTool call and its outcome
  requested,    \* tool calls of the last model message of the conversation
  appended,     \* tool results pushed to the conversation after that message
  reply,        \* final text of the exchange
  toolSteps,    \* loop iterations of this exchange that executed tool calls
  toolRan,      \* a tool handler has run in this exchange
  partialText,  \* a model message of this exchange had text next to its
                \* tool calls
  textCall      \* the last model message had its tool call parsed from text

chatVars == << env, chatPc, media, maxLoops, modelCalls, geminiFailed,
               fellBack, mediaSent, lastTool, requested, appended, reply,
               toolSteps, toolRan, partialText, textCall >>

VARIABLES
  taskRow,      \* background_tasks table: id -> row, or NoRow
  runningTasks, \* ids of the in-memory registry runningTasks
  taskPc,       \* position of executeBackgroundTask for each id
  aborted,      \* abortController.signal.aborted, with what aborted it first
  nextTaskId,   \* ids handed out so far, plus one
  faults,       \* timeout expiries, kill / steer requests and failed
                \* model calls so far
  limits        \* what one run may do: tasks spawned, faults, and the model
                \* overrides a spawn request may name (fixed by Init)

taskVars == << taskRow, runningTasks, taskPc, aborted, nextTaskId, faults,
               limits >>

VARIABLES
  now,          \* Date.now(), in ticks
  jobRow,       \* cron_jobs table: id -> row, or NoJob
  activeTasks,  \* in-memory map activeTasks: id -> handle, or NoHandle
  inFlight,     \* executeJob calls awaiting lineClient.pushMessage
  nextJobId,    \* ids handed out so far, plus one
  live,         \* timers and node-cron tasks that are armed: id -> handles
  cronRuns,     \* cron_runs table: id -> statuses of its rows, oldest first
  firings,      \* executeJob calls started so far
  foreignKeys,  \* whether the database enforces FOREIGN KEY clauses
  lastReply     \* result of the last add / update / remove / wake request

cronVars == << now, jobRow, activeTasks, inFlight, nextJobId, live, cronRuns,
               firings, foreignKeys, lastReply >>

VARIABLES
  batch,        \* events of the webhook request being handled
  eventIdx,     \* position of the for loop of handleWebhook in the batch
  hookPc,       \* position of handleWebhook within the current event
  caught,       \* the error bound in the catch block of handleWebhook
  hookLog       \* per event: how chat() ended and the replies attempted

hookVars == << batch, eventIdx, hookPc, caught, hookLog >>

VARIABLES
  ownerEnv,        \* process.env.OWNER_USER_ID
  configOverrides, \* gateway: the map configOverrides
  gatePc,          \* the process: up, restart scheduled, exited
  pushed,          \* sessions_send: messages handed to lineClient.pushMessage
  sessionRows,     \* sessions_send: rows inserted into sessions
  gateReply        \* the last gateway / sessions_send call: its tool, its
                   \* caller and what it returned

gateVars == << ownerEnv, configOverrides, gatePc, pushed, sessionRows,
               gateReply >>

VARIABLES
  clock,        \* Date.now(), in minutes
  cache,        \* SEARCH_CACHE and FETCH_CACHE: tool -> entry of the key
  lastWeb       \* the last web_search / web_fetch call and its outcome

webVars == << clock, cache, lastWeb >>

VARIABLES
  exPc,            \* per user: position of that user's chat() call
  lastAudioResult, \* ai.ts: the module variable _lastAudioResult
  lastImageUrl,    \* ai.ts: the module variable _lastImageUrl
  madeMedia,       \* per user: media produced by tools of the current call
  chatResult,      \* per user: audioUrl / imageUrl of the ChatResult returned
  exchanges        \* chat() calls started so far

mediaVars == << exPc, lastAudioResult, lastImageUrl, madeMedia, chatResult,
                exchanges >>

VARIABLES
  created,        \* number of rows of background_tasks
  registry,       \* ids that have an entry in runningTasks
  statusReply     \* the last spawn or status call and its answer

statVars == << created, registry, statusReply >>

VARIABLES
  fetchPc,        \* position of fetchWithSsrfGuard
  hop,            \* the loop counter i of fetchWithSsrfGuard
  requests,       \* hostnames fetch was called on, in order
  fetchResult     \* how the call ended

fetchVars == << fetchPc, hop, requests, fetchResult >>

VARIABLES
  targetUserId,   \* cron_jobs: job id -> target_user_id, or none without a row
  handleTarget,   \* job id -> target_user_id of the job object of its handle
  addedBy,        \* job id -> context.userId of the add that made it
  deliveries,     \* job id -> the pushes that resolved: recipient and starter
  nextOwnedId     \* job ids handed out so far, plus one

rcptVars == << targetUserId, handleTarget, addedBy, deliveries, nextOwnedId >>

VARIABLES
  wallClock,      \* Date.now(), in ticks
  onceDue,        \* new Date(job.schedule).getTime() of the one-shot row, or none
  timerDue,       \* the instant the armed setTimeout is due, or none
  timerFirings,   \* the instants at which the timer callback ran
  ranByHand       \* an explicit run sent the message

onceVars == << wallClock, onceDue, timerDue, timerFirings, ranByHand >>

VARIABLES
  cacheMap,       \* the Map: entries in insertion order, each a key and its expiresAt
  cacheNow,       \* Date.now(), in ticks
  nextCacheKey,   \* the keys written so far, plus one
  staleReads,     \* the reads that deleted an entry past its expiry
  evictions       \* the writes that removed the key inserted first

cacheVars == << cacheMap, cacheNow, nextCacheKey, staleReads, evictions >>

\* the subsystems with a handful of variables each
sideVars == << hookVars, gateVars, webVars, mediaVars, statVars, fetchVars, rcptVars, onceVars, cacheVars >>
notHook == << gateVars, webVars, mediaVars, statVars, fetchVars, rcptVars, onceVars, cacheVars >>
notGate == << hookVars, webVars, mediaVars, statVars, fetchVars, rcptVars, onceVars, cacheVars >>
notWeb == << hookVars, gateVars, mediaVars, statVars, fetchVars, rcptVars, onceVars, cacheVars >>
notMedia == << hookVars, gateVars, webVars, statVars, fetchVars, rcptVars, onceVars, cacheVars >>
notStat == << hookVars, gateVars, webVars, mediaVars, fetchVars, rcptVars, onceVars, cacheVars >>
notFetch == << hookVars, gateVars, webVars, mediaVars, statVars, rcptVars, onceVars, cacheVars >>
notRcpt == << hookVars, gateVars, webVars, mediaVars, statVars, fetchVars, onceVars, cacheVars >>
notOnce == << hookVars, gateVars, webVars, mediaVars, statVars, fetchVars, rcptVars, cacheVars >>
notCache == << hookVars, gateVars, webVars, mediaVars, statVars, fetchVars, rcptVars, onceVars >>

vars == << chatVars, taskVars, cronVars, sideVars >>

\* ------------------------------------------------------------------------
\* tools/index.ts
\* ------------------------------------------------------------------------
findTool(name) ==
  IF \E i \in 1..Len(allTools) : allTools[i] = name THEN name ELSE Undefined

\* executeTool without the lookup guard: tool.execute on undefined throws
\* outside the try block
executeTool_noGuard(name, handler) ==
  LET tool == findTool(name) IN
  IF tool = Undefined
    THEN [name |-> name, result |-> <<"TypeError">>, invoked |-> TRUE,
          rejected |-> TRUE]
  ELSE IF handler = "returns"
    THEN [name |-> name, result |-> <<"ok", name>>, invoked |-> TRUE,
          rejected |-> FALSE]
  ELSE [name |-> name, result |-> <<"Error executing ", name, ": ", "Error: ", HandlerError>>,
        invoked |-> TRUE, rejected |-> FALSE]

\* executeTool without the try block: the handler's exception escapes
executeTool_noCatch(name, handler) ==
  LET tool == findTool(name) IN
  IF tool = Undefined
    THEN [name |-> name, result |-> <<"Error: tool \"", name, "\" not found">>,
          invoked |-> FALSE, rejected |-> FALSE]
  ELSE IF handler = "returns"
    THEN [name |-> name, result |-> <<"ok", name>>, invoked |-> TRUE,
          rejected |-> FALSE]
  ELSE [name |-> name, result |-> << >>, invoked |-> TRUE, rejected |-> TRUE]

executeTool(name, handler) ==
  LET tool == findTool(name) IN
  IF tool = Undefined
    THEN [name |-> name, result |-> <<"Error: tool \"", name, "\" not found">>,
          invoked |-> FALSE, rejected |-> FALSE]
  ELSE IF handler = "returns"
    THEN [name |-> name, result |-> <<"ok", name>>, invoked |-> TRUE,
          rejected |-> FALSE]
  ELSE [name |-> name, result |-> <<"Error executing ", name, ": ", "Error: ", HandlerError>>,
        invoked |-> TRUE, rejected |-> FALSE]

\* ------------------------------------------------------------------------
\* ai.ts
\* ------------------------------------------------------------------------
\* provider detection: GEMINI_API_KEY, then OLLAMA_MODEL, then ANTHROPIC_API_KEY
AI_PROVIDER ==
  IF env.gemini THEN "gemini"
  ELSE IF env.ollama THEN "ollama"
  ELSE IF env.anthropic THEN "anthropic"
  ELSE "none"

\* chat(): the catch block of the Gemini branch retries on Ollama only for
\* a turn without media
chatFallback_noMedia(m) == env.ollama /\ m = "none"

\* chat(): the catch block of the Gemini branch, if (process.env.OLLAMA_MODEL)
chatFallback(m) == env.ollama

\* chatGemini: media is inlined for image/, video/ and audio/ types
geminiInlines(m) == m \in BinaryMedia

\* chatAnthropic: media is inlined for the ANTHROPIC_IMAGE_TYPES only
anthropicInlines(m) == m = "image"

\* the for loop over the tool calls, pushing each result at the front
runToolCalls_reversed(calls) ==
  [i \in 1..Len(calls) |->
     executeTool(calls[Len(calls) + 1 - i].name,
                 calls[Len(calls) + 1 - i].handler)]

\* the for loop over the tool calls of one model turn: each call goes through
\* executeTool in turn and its result is pushed before the next call starts
runToolCalls(calls) ==
  [i \in 1..Len(calls) |-> executeTool(calls[i].name, calls[i].handler)]

\* the outcome of the last executeTool call so far
lastExecuted(results, before) ==
  IF Len(results) = 0 THEN before ELSE results[Len(results)]

\* a rejected executeTool promise propagates out of the provider loop
loopPcAfter(results, pc) ==
  IF \E i \in 1..Len(results) : results[i].rejected THEN "threw" ELSE pc

\* chat() up to the first model call of the selected provider loop
ChatStart(m) ==
  /\ chatPc = "idle"
  /\ media' = m
  /\ modelCalls' = 0
  /\ geminiFailed' = FALSE
  /\ fellBack' = FALSE
  /\ lastTool' = NoTool
  /\ requested' = << >>
  /\ appended' = << >>
  /\ maxLoops' = MAX_LOOPS
  /\ toolSteps' = 0
  /\ toolRan' = FALSE
  /\ partialText' = FALSE
  /\ textCall' = FALSE
  /\ IF AI_PROVIDER = "none"
       THEN /\ chatPc' = "replied"
            /\ reply' = "(no provider configured)"
            /\ mediaSent' = {}
       ELSE /\ chatPc' = AI_PROVIDER
            /\ reply' = ""
            /\ mediaSent' =
                 IF AI_PROVIDER = "gemini" /\ geminiInlines(m) THEN {"gemini"}
                 ELSE IF AI_PROVIDER = "anthropic" /\ anthropicInlines(m)
                   THEN {"anthropic"}
                 ELSE {}
  /\ UNCHANGED env
  /\ UNCHANGED << taskVars, cronVars, sideVars >>

\* a loop test that leaves the loop one iteration early
loopTest_oneShort(n) == n > 1

\* the test of while (maxLoops-- > 0), on the counter before the decrement
loopTest(n) == n > 0

\* a parse that takes any name
parseToolCallFromText_anyName(name, argsParse) ==
  IF argsParse THEN name ELSE Undefined

\* parseToolCallFromText: a call embedded in the reply text counts only when
\* JSON.parse accepts its arguments (a throw is caught and gives null) and
\* its name is a tool of the catalog
parseToolCallFromText(name, argsParse) ==
  IF argsParse /\ findTool(name) # Undefined THEN name ELSE Undefined

\* the reply text embeds a call, with arguments that parse or do not
embedsCall(resp) == resp \in {"text_tool_call", "text_tool_call_bad_json"}

\* the model message carries tool calls: functionCall parts, or tool_calls,
\* alone or next to text (text parts, or a non-empty content)
requestsTools(resp) == resp \in {"tool_calls", "tool_calls_text"}

\* the tool calls one loop iteration hands to executeTool, by the kind of the
\* model response: all of them, those before the call whose arguments do
\* not parse, the one call parsed from the text, or none
executedCalls(resp, calls) ==
  CASE requestsTools(resp) -> calls
    [] resp = "bad_arguments" -> SubSeq(calls, 1, Len(calls) - 1)
    [] embedsCall(resp) ->
         IF parseToolCallFromText(calls[1].name, resp = "text_tool_call")
              # Undefined
           THEN << calls[1] >> ELSE << >>
    [] OTHER -> << >>

\* the iteration executed tool calls
countedStep(resp, calls, n) ==
  IF executedCalls(resp, calls) # << >> THEN n + 1 ELSE n

\* a handler of the catalog ran in the iteration
handlerRan(resp, calls) ==
  LET results == runToolCalls(executedCalls(resp, calls)) IN
  \E i \in 1..Len(results) : results[i].invoked

\* one iteration of the chatGemini loop: while (maxLoops-- > 0) { ... }
GeminiTurn(resp, calls) ==
  /\ chatPc = "gemini"
  /\ loopTest(maxLoops)
  /\ modelCalls' = modelCalls + 1
  /\ CASE resp \in {"http_error", "malformed"} ->
            \* throw new Error("Gemini API error"), or the TypeError of
            \* candidate.content.parts on a candidate without content:
            \* both are caught in chat()
            /\ geminiFailed' = TRUE
            /\ IF chatFallback(media)
                 THEN \* reply = await chatOllama(message, ...): a new
                      \* conversation, without media
                      /\ chatPc' = "ollama"
                      /\ fellBack' = TRUE
                      /\ maxLoops' = MAX_LOOPS
                      /\ requested' = << >>
                      /\ appended' = << >>
                 ELSE /\ chatPc' = "threw"
                      /\ fellBack' = fellBack
                      /\ maxLoops' = maxLoops - 1
                      /\ UNCHANGED << requested, appended >>
            /\ UNCHANGED << lastTool, reply >>
       [] resp = "no_candidate" ->
            /\ chatPc' = "replied"
            /\ reply' = "(no response from Gemini)"
            /\ maxLoops' = maxLoops - 1
            /\ UNCHANGED << geminiFailed, fellBack, lastTool, requested,
                            appended >>
       [] requestsTools(resp) ->
            LET results == runToolCalls(calls) IN
            /\ requested' = calls
            /\ appended' = results
            /\ lastTool' = lastExecuted(results, lastTool)
            /\ chatPc' = loopPcAfter(results, chatPc)
            /\ maxLoops' = maxLoops - 1
            /\ UNCHANGED << geminiFailed, fellBack, reply >>
       [] resp = "text" ->
            /\ chatPc' = "replied"
            /\ reply' = "text"
            /\ maxLoops' = maxLoops - 1
            /\ requested' = << >>
            /\ appended' = << >>
            /\ UNCHANGED << geminiFailed, fellBack, lastTool >>
       [] resp = "empty" ->
            /\ chatPc' = "replied"
            /\ reply' = "(no response)"
            /\ maxLoops' = maxLoops - 1
            /\ requested' = << >>
            /\ appended' = << >>
            /\ UNCHANGED << geminiFailed, fellBack, lastTool >>
  /\ toolSteps' = countedStep(resp, calls, toolSteps)
  /\ toolRan' = (toolRan \/ handlerRan(resp, calls))
  /\ partialText' = (partialText \/ resp = "tool_calls_text")
  /\ textCall' = FALSE
  /\ UNCHANGED << env, media, mediaSent >>
  /\ UNCHANGED << taskVars, cronVars, sideVars >>

\* the loop test of chatGemini fails: return lastText || "(no response)"
GeminiExit ==
  /\ chatPc = "gemini"
  /\ ~loopTest(maxLoops)
  /\ maxLoops' = maxLoops - 1
  /\ chatPc' = "replied"
  /\ reply' = "(no response)"
  /\ UNCHANGED << env, media, modelCalls, geminiFailed, fellBack, mediaSent,
                  lastTool, requested, appended, toolSteps, toolRan,
                  partialText, textCall >>
  /\ UNCHANGED << taskVars, cronVars, sideVars >>

\* one iteration of the chatOllama loop: while (maxLoops-- > 0) { ... }
OllamaTurn(resp, calls) ==
  /\ chatPc = "ollama"
  /\ loopTest(maxLoops)
  /\ maxLoops' = maxLoops - 1
  /\ modelCalls' = modelCalls + 1
  /\ CASE resp \in {"http_error", "malformed"} ->
            \* throw new Error("Ollama API error"), or the TypeError of
            \* json.choices[0] on a body without choices: chat() does not
            \* catch it
            /\ chatPc' = "threw"
            /\ UNCHANGED << lastTool, requested, appended, reply >>
       [] resp = "no_candidate" ->
            /\ chatPc' = "replied"
            /\ reply' = "(no response)"
            /\ UNCHANGED << lastTool, requested, appended >>
       [] requestsTools(resp) ->
            LET results == runToolCalls(calls) IN
            /\ requested' = calls
            /\ appended' = results
            /\ lastTool' = lastExecuted(results, lastTool)
            /\ chatPc' = loopPcAfter(results, chatPc)
            /\ UNCHANGED reply
       [] resp = "bad_arguments" ->
            \* JSON.parse(tc.function.arguments) throws on the last call of
            \* the turn: the calls before it have run
            LET results == runToolCalls(SubSeq(calls, 1, Len(calls) - 1)) IN
            /\ requested' = calls
            /\ appended' = results
            /\ lastTool' = lastExecuted(results, lastTool)
            /\ chatPc' = "threw"
            /\ UNCHANGED reply
       [] embedsCall(resp) ->
            IF parseToolCallFromText(calls[1].name, resp = "text_tool_call")
                 # Undefined
              THEN LET results == runToolCalls(<< calls[1] >>) IN
                   /\ requested' = << calls[1] >>
                   /\ appended' = results
                   /\ lastTool' = lastExecuted(results, lastTool)
                   /\ chatPc' = loopPcAfter(results, chatPc)
                   /\ UNCHANGED reply
              ELSE /\ chatPc' = "replied"
                   /\ reply' = "text"
                   /\ requested' = << >>
                   /\ appended' = << >>
                   /\ UNCHANGED lastTool
       [] resp = "text" ->
            /\ chatPc' = "replied"
            /\ reply' = "text"
            /\ requested' = << >>
            /\ appended' = << >>
            /\ UNCHANGED lastTool
       [] resp = "empty" ->
            /\ chatPc' = "replied"
            /\ reply' = "(no response)"
            /\ requested' = << >>
            /\ appended' = << >>
            /\ UNCHANGED lastTool
  /\ toolSteps' = countedStep(resp, calls, toolSteps)
  /\ toolRan' = (toolRan \/ handlerRan(resp, calls))
  /\ partialText' = (partialText \/ resp = "tool_calls_text")
  /\ textCall' = (embedsCall(resp) /\ executedCalls(resp, calls) # << >>)
  /\ UNCHANGED << env, media, geminiFailed, fellBack, mediaSent >>
  /\ UNCHANGED << taskVars, cronVars, sideVars >>

\* the loop test of chatOllama fails: return lastText || "(no response)"
OllamaExit ==
  /\ chatPc = "ollama"
  /\ ~loopTest(maxLoops)
  /\ maxLoops' = maxLoops - 1
  /\ chatPc' = "replied"
  /\ reply' = "(no response)"
  /\ UNCHANGED << env, media, modelCalls, geminiFailed, fellBack, mediaSent,
                  lastTool, requested, appended, toolSteps, toolRan,
                  partialText, textCall >>
  /\ UNCHANGED << taskVars, cronVars, sideVars >>

\* one iteration of the chatAnthropic loop:
\* do { ... } while (response.stop_reason === "tool_use")
AnthropicTurn(resp, calls) ==
  /\ chatPc = "anthropic"
  /\ modelCalls < MaxModelCalls
  /\ modelCalls' = modelCalls + 1
  /\ CASE resp = "http_error" ->
            \* messages.create rejects: chat() does not catch it
            /\ chatPc' = "threw"
            /\ UNCHANGED << lastTool, requested, appended, reply >>
       [] resp = "tool_calls" ->
            LET results == runToolCalls(calls) IN
            /\ requested' = calls
            /\ appended' = results
            /\ lastTool' = lastExecuted(results, lastTool)
            /\ chatPc' = loopPcAfter(results, chatPc)
            /\ UNCHANGED reply
       [] resp = "text" ->
            /\ chatPc' = "replied"
            /\ reply' = "text"
            /\ requested' = << >>
            /\ appended' = << >>
            /\ UNCHANGED lastTool
       [] resp = "empty" ->
            /\ chatPc' = "replied"
            /\ reply' = "(no response)"
            /\ requested' = << >>
            /\ appended' = << >>
            /\ UNCHANGED lastTool
  /\ toolSteps' = countedStep(resp, calls, toolSteps)
  /\ toolRan' = (toolRan \/ handlerRan(resp, calls))
  /\ partialText' = (partialText \/ resp = "tool_calls_text")
  /\ textCall' = FALSE
  /\ UNCHANGED << env, media, maxLoops, geminiFailed, fellBack, mediaSent >>
  /\ UNCHANGED << taskVars, cronVars, sideVars >>

\* chat() has returned or thrown: its locals are gone, the next inbound
\* message starts over
ChatEnd ==
  /\ chatPc \in {"replied", "threw"}
  /\ chatPc' = "idle"
  /\ media' = "none"
  /\ maxLoops' = MAX_LOOPS
  /\ modelCalls' = 0
  /\ geminiFailed' = FALSE
  /\ fellBack' = FALSE
  /\ mediaSent' = {}
  /\ lastTool' = NoTool
  /\ requested' = << >>
  /\ appended' = << >>
  /\ reply' = ""
  /\ toolSteps' = 0
  /\ toolRan' = FALSE
  /\ partialText' = FALSE
  /\ textCall' = FALSE
  /\ UNCHANGED env
  /\ UNCHANGED << taskVars, cronVars, sideVars >>

\* what one model call can come back with: an HTTP error; a body without the
\* candidate / choice fields the loop reads ("malformed"); an empty list of
\* candidates / choices; tool calls; text; a candidate with no text
GeminiResponses ==
  {"http_error", "malformed", "no_candidate", "tool_calls",
   "tool_calls_text", "text", "empty"}
OllamaResponses ==
  GeminiResponses
    \cup {"bad_arguments", "text_tool_call", "text_tool_call_bad_json"}
AnthropicResponses == {"http_error", "tool_calls", "text", "empty"}

EnvChoices == [gemini : BOOLEAN, ollama : BOOLEAN, anthropic : BOOLEAN]

\* for the task body only the presence of a provider matters
TaskEnvChoices ==
  {e \in EnvChoices : ~e.ollama /\ ~e.anthropic}

InitChat ==
  /\ chatPc = "idle"
  /\ media = "none"
  /\ maxLoops = MAX_LOOPS
  /\ modelCalls = 0
  /\ geminiFailed = FALSE
  /\ fellBack = FALSE
  /\ mediaSent = {}
  /\ lastTool = NoTool
  /\ requested = << >>
  /\ appended = << >>
  /\ reply = ""
  /\ toolSteps = 0
  /\ toolRan = FALSE
  /\ partialText = FALSE
  /\ textCall = FALSE

\* model turns that request one tool call
SingleCalls == {c \in CallLists : Len(c) = 1}

\* the tool calls a response of kind r can carry, out of the lists given
CallsOf(r, lists) ==
  IF r \in {"tool_calls", "tool_calls_text", "bad_arguments"} THEN lists
  ELSE IF embedsCall(r) THEN SingleCalls
  ELSE {<< >>}

\* exchanges whose user turn carries one of the media kinds given and whose
\* model turns request one of the call lists given
NextLoop(kinds, lists) ==
  \/ \E m \in kinds : ChatStart(m)
  \/ \E r \in GeminiResponses : \E c \in CallsOf(r, lists) : GeminiTurn(r, c)
  \/ GeminiExit
  \/ \E r \in OllamaResponses : \E c \in CallsOf(r, lists) : OllamaTurn(r, c)
  \/ OllamaExit
  \/ \E r \in AnthropicResponses : \E c \in CallsOf(r, lists) :
       AnthropicTurn(r, c)
  \/ ChatEnd

\* every media kind, one tool call per model turn
NextChat == NextLoop(MediaKinds, SingleCalls)

\* text-only exchanges, several tool calls per model turn
NextTurns == NextLoop({"none"}, CallLists)

\* ------------------------------------------------------------------------
\* sessions-spawn.ts and subagents.ts: background tasks
\* ------------------------------------------------------------------------
TaskIds == 1..MaxTasks
NoRow == [status |-> "none", result |-> "null", completed_at |-> "null",
          user_id |-> "-", task |-> << >>, model |-> "-"]

\* the model input of sessions_spawn: absent (null), or a model name
ModelOverrides == {"null", "model-x"}

\* the task text of a spawn request and the message of a steer request
SpawnTask == << "do the work" >>
SteerMessage == "new instructions"

\* a is a contiguous part of b
IsInfix(a, b) ==
  \E k \in 0..(Len(b) - Len(a)) : SubSeq(b, k + 1, k + Len(a)) = a

\* getActiveProvider(): reads process.env on every call
getActiveProvider ==
  IF env.gemini THEN "gemini"
  ELSE IF env.ollama THEN "ollama"
  ELSE IF env.anthropic THEN "anthropic"
  ELSE "none"

\* rows of owner u whose persisted status is running
RunningRows(u) ==
  {t \in TaskIds : taskRow[t].status = "running" /\ taskRow[t].user_id = u}

\* sessionsSpawnTool.execute: the count compared with MAX_CHILDREN
userRunning(u) ==
  Cardinality({t \in runningTasks : taskRow[t].user_id = u})

\* the row written by the INSERT of spawn and steer
NewRow(u, task, m) ==
  [status |-> "running", result |-> "null", completed_at |-> "null",
   user_id |-> u, task |-> task, model |-> m]

\* executeBackgroundTask up to its first await, on a fresh signal: without a
\* provider it throws, the catch block marks the row failed and awaits the push
StartBody(row) ==
  IF getActiveProvider = "none"
    THEN [pc |-> "pushFail",
          row |-> [row EXCEPT !.status = "failed", !.result = "error",
                              !.completed_at = "set"]]
    ELSE [pc |-> "fetch", row |-> row]

\* sessionsSpawnTool.execute: what it returns
spawnReturn(u) ==
  IF userRunning(u) >= MAX_CHILDREN THEN "limit_exceeded" ELSE "accepted"

\* tasks that user u has spawned or steered so far
TasksOf(u) == {t \in TaskIds : taskRow[t].user_id = u}

\* sessionsSpawnTool.execute
Spawn(u) ==
  /\ nextTaskId <= limits.tasks
  /\ u = "u1" \/ Cardinality(TasksOf(u)) < MaxOtherTasks
  /\ IF spawnReturn(u) = "limit_exceeded"
       THEN UNCHANGED << taskRow, runningTasks, taskPc, aborted, nextTaskId >>
       ELSE \E m \in limits.models :
            LET id == nextTaskId
                b == StartBody(NewRow(u, SpawnTask, m)) IN
            /\ taskRow' = [taskRow EXCEPT ![id] = b.row]
            /\ runningTasks' = runningTasks \cup {id}
            /\ taskPc' = [taskPc EXCEPT ![id] = b.pc]
            /\ aborted' = [aborted EXCEPT ![id] = "no"]
            /\ nextTaskId' = nextTaskId + 1
  /\ UNCHANGED << faults, limits >>
  /\ UNCHANGED << chatVars, cronVars, sideVars >>

\* executeBackgroundTask: the model call resolves and the signal is not aborted
TaskFetchOk(t) ==
  /\ taskPc[t] = "fetch"
  /\ aborted[t] = "no"
  /\ taskRow' = [taskRow EXCEPT ![t].status = "completed",
                                ![t].result = "result",
                                ![t].completed_at = "set"]
  /\ taskPc' = [taskPc EXCEPT ![t] = "pushOk"]
  /\ UNCHANGED << runningTasks, aborted, nextTaskId, faults, limits >>
  /\ UNCHANGED << chatVars, cronVars, sideVars >>

\* executeBackgroundTask: the model call rejects and the signal is not aborted
TaskFetchError(t) ==
  /\ taskPc[t] = "fetch"
  /\ aborted[t] = "no"
  /\ faults < limits.faults
  /\ faults' = faults + 1
  /\ taskRow' = [taskRow EXCEPT ![t].status = "failed",
                                ![t].result = "error",
                                ![t].completed_at = "set"]
  /\ taskPc' = [taskPc EXCEPT ![t] = "pushFail"]
  /\ UNCHANGED << runningTasks, aborted, nextTaskId, limits >>
  /\ UNCHANGED << chatVars, cronVars, sideVars >>

\* the catch block of executeBackgroundTask on an aborted signal:
\* if (signal.aborted) { console.log(...); return; }
catchAborted(row) == row

\* executeBackgroundTask: the model call settles on an aborted signal; the
\* finally block removes the handle
TaskFetchAborted(t) ==
  /\ taskPc[t] = "fetch"
  /\ aborted[t] # "no"
  /\ taskRow' = [taskRow EXCEPT ![t] = catchAborted(taskRow[t])]
  /\ taskPc' = [taskPc EXCEPT ![t] = "done"]
  /\ runningTasks' = runningTasks \ {t}
  /\ UNCHANGED << aborted, nextTaskId, faults, limits >>
  /\ UNCHANGED << chatVars, cronVars, sideVars >>

\* a push whose failure marks the row failed
afterPush_marksFailed(row, ok) ==
  IF ok THEN row ELSE [row EXCEPT !.status = "failed"]

\* the row after pushMessage has settled: catch (pushErr) { console.error }
\* and catch { } write nothing
afterPush(row, ok) == row

\* executeBackgroundTask: lineClient.pushMessage settles (its failure is
\* swallowed); the finally block removes the handle
TaskPushSettles(t) ==
  /\ taskPc[t] \in {"pushOk", "pushFail"}
  /\ taskPc' = [taskPc EXCEPT ![t] = "done"]
  /\ runningTasks' = runningTasks \ {t}
  /\ \E ok \in BOOLEAN :
       taskRow' = [taskRow EXCEPT ![t] = afterPush(taskRow[t], ok)]
  /\ UNCHANGED << aborted, nextTaskId, faults, limits >>
  /\ UNCHANGED << chatVars, cronVars, sideVars >>

\* setTimeout(() => abortController.abort(), ...): armed by spawn and steer,
\* cleared when executeBackgroundTask has finished
TimeoutFires(t) ==
  /\ taskPc[t] \in {"fetch", "pushOk", "pushFail"}
  /\ aborted[t] = "no"
  /\ faults < limits.faults
  /\ faults' = faults + 1
  /\ aborted' = [aborted EXCEPT ![t] = "timeout"]
  /\ UNCHANGED << taskRow, runningTasks, taskPc, nextTaskId, limits >>
  /\ UNCHANGED << chatVars, cronVars, sideVars >>

\* cancelTask: the effect on one task that has a handle
cancelOne(rows, t) ==
  [rows EXCEPT ![t].status = "cancelled", ![t].completed_at = "set"]

abortOne(ab, t) == [ab EXCEPT ![t] = IF ab[t] = "no" THEN "cancel" ELSE ab[t]]

\* cancelTask: what it returns
cancelTaskReturn(t) == t \in runningTasks

\* steerTask: whether it returns a new task id (otherwise null)
steerTaskReturn(t) == t \in runningTasks

\* subagentsTool.execute, action kill with a task id: cancelTask
KillTask(t) ==
  /\ faults < limits.faults
  /\ faults' = faults + 1
  /\ IF cancelTaskReturn(t)
       THEN /\ aborted' = abortOne(aborted, t)
            /\ runningTasks' = runningTasks \ {t}
            /\ taskRow' = cancelOne(taskRow, t)
       ELSE UNCHANGED << taskRow, runningTasks, aborted >>
  /\ UNCHANGED << taskPc, nextTaskId, limits >>
  /\ UNCHANGED << chatVars, cronVars, sideVars >>

\* kill all: the entries of runningTasks it passes to cancelTask
killAllTargets(u) == {t \in runningTasks : taskRow[t].user_id = u}

\* kill all: the killedCount it reports
killedCount(u) == Cardinality(killAllTargets(u))

\* subagentsTool.execute, action kill with target "all": cancelTask on every
\* handle of the calling user
KillAll(u) ==
  /\ faults < limits.faults
  /\ faults' = faults + 1
  /\ LET mine == killAllTargets(u) IN
     /\ aborted' = [t \in TaskIds |->
                      IF t \in mine /\ aborted[t] = "no" THEN "cancel"
                      ELSE aborted[t]]
     /\ runningTasks' = runningTasks \ mine
     /\ taskRow' = [t \in TaskIds |->
                      IF t \in mine
                        THEN [taskRow[t] EXCEPT !.status = "cancelled",
                                                !.completed_at = "set"]
                        ELSE taskRow[t]]
  /\ UNCHANGED << taskPc, nextTaskId, limits >>
  /\ UNCHANGED << chatVars, cronVars, sideVars >>

\* steerTask: the instructions of the new task
combinedTask(original, newMessage) ==
  << "Original task: " >> \o original
    \o << "\n\n--- UPDATED INSTRUCTIONS ---\n", newMessage >>

\* steerTask: the record of the new task, made from the original one
steeredRow(original, newMessage) ==
  NewRow(original.user_id, combinedTask(original.task, newMessage),
         original.model)

\* steerTask, reached from subagentsTool.execute, action steer
SteerTask(t) ==
  /\ faults < limits.faults
  /\ faults' = faults + 1
  /\ IF steerTaskReturn(t)
       THEN /\ nextTaskId <= MaxTasks
            /\ LET id == nextTaskId
                   b == StartBody(steeredRow(taskRow[t], SteerMessage)) IN
               /\ aborted' = [abortOne(aborted, t) EXCEPT ![id] = "no"]
               /\ runningTasks' = (runningTasks \ {t}) \cup {id}
               /\ taskRow' = [taskRow EXCEPT
                                ![t].status = "cancelled",
                                ![t].result = "steered",
                                ![t].completed_at = "set",
                                ![id] = b.row]
               /\ taskPc' = [taskPc EXCEPT ![id] = b.pc]
               /\ nextTaskId' = nextTaskId + 1
       ELSE UNCHANGED << taskRow, runningTasks, taskPc, aborted, nextTaskId >>
  /\ UNCHANGED limits
  /\ UNCHANGED << chatVars, cronVars, sideVars >>

\* subagentsTool.execute called with context.userId = u, action kill with a
\* task id: running.get(target) and cancelTask(target) do not read the caller
KillBy(u, t) == KillTask(t)

\* subagentsTool.execute called with context.userId = u, action steer:
\* steerTask(target, message, dataDir) does not read the caller
SteerBy(u, t) == SteerTask(t)

InitTasks ==
  /\ taskRow = [t \in TaskIds |-> NoRow]
  /\ runningTasks = {}
  /\ taskPc = [t \in TaskIds |-> "none"]
  /\ aborted = [t \in TaskIds |-> "no"]
  /\ nextTaskId = 1
  /\ faults = 0

NextTasks ==
  \/ \E u \in Users : Spawn(u)
  \/ \E t \in TaskIds : TaskFetchOk(t)
  \/ \E t \in TaskIds : TaskFetchError(t)
  \/ \E t \in TaskIds : TaskFetchAborted(t)
  \/ \E t \in TaskIds : TaskPushSettles(t)
  \/ \E t \in TaskIds : TimeoutFires(t)
  \/ \E t \in TaskIds : KillTask(t)
  \/ \E u \in Users : KillAll(u)
  \/ \E t \in TaskIds : SteerTask(t)

\* ------------------------------------------------------------------------
\* cron.ts: scheduled jobs
\* ------------------------------------------------------------------------
JobIds == 1..MaxJobs
Times == 0..MaxTime

\* a schedule string, by what the code looks at: whether it is empty after
\* trim, whether it matches /^\d{4}-\d{2}-\d{2}/, the instant new Date() gives
\* it (valid = it parses), whether cron.validate accepts it
EmptySchedule == [shape |-> "empty", valid |-> FALSE, time |-> 0]
ScheduleInputs ==
  {EmptySchedule}
    \cup {[shape |-> "expr", valid |-> v, time |-> 0] : v \in BOOLEAN}
    \cup {[shape |-> "date", valid |-> TRUE, time |-> t] : t \in Times}
    \cup {[shape |-> "date", valid |-> FALSE, time |-> 0]}

NoJob == [schedule |-> EmptySchedule, schedule_type |-> "none", enabled |-> 0,
          delete_after_run |-> 0, run_count |-> 0]
\* what a handle's callback keeps of the job it was scheduled with: the
\* fields executeJob reads, and the instant of a one-time job
Snapshot(job) ==
  [schedule_type |-> job.schedule_type,
   delete_after_run |-> job.delete_after_run,
   time |-> IF job.schedule_type = "once" THEN job.schedule.time ELSE 0]
NoSnapshot == Snapshot(NoJob)
NoHandle == [kind |-> "none", job |-> NoSnapshot]

\* an optional boolean field of the tool input
OptBool == {"absent", "true", "false"}

isDateLike(s) == s.shape = "date"
isNaNDate(s) == ~s.valid
cronValidate(s) == s.shape = "expr" /\ s.valid

\* the validation of add without the comparison with Date.now()
addError_noPastCheck(s) ==
  IF s.shape = "empty" THEN "missing_schedule"
  ELSE IF isDateLike(s)
    THEN IF isNaNDate(s) THEN "invalid_date" ELSE "ok"
  ELSE IF ~cronValidate(s) THEN "invalid_schedule"
  ELSE "ok"

\* cronTool.execute, action add: the validation of the schedule
addError(s) ==
  IF s.shape = "empty" THEN "missing_schedule"
  ELSE IF isDateLike(s)
    THEN IF isNaNDate(s) THEN "invalid_date"
         ELSE IF s.time <= now THEN "past_date"
         ELSE "ok"
  ELSE IF ~cronValidate(s) THEN "invalid_schedule"
  ELSE "ok"

\* cronTool.execute, action update: the validation of a new schedule
updateScheduleError(s) ==
  IF isDateLike(s)
    THEN IF isNaNDate(s) THEN "invalid_date" ELSE "ok"
  ELSE IF ~cronValidate(s) THEN "invalid_schedule"
  ELSE "ok"

scheduleType(s) == IF isDateLike(s) THEN "once" ELSE "cron"

\* scheduleJob that never arms a node-cron task
scheduleJob_noCronTask(job) ==
  IF job.enabled = 0 THEN NoHandle
  ELSE IF job.schedule_type = "once"
    THEN IF job.schedule.time - now <= 0 THEN NoHandle
         ELSE [kind |-> "timeout", job |-> Snapshot(job)]
  ELSE NoHandle

\* scheduleJob: the handle of job.id after the call (the existing handle is
\* stopped and deleted first)
scheduleJob(job) ==
  IF job.enabled = 0 THEN NoHandle
  ELSE IF job.schedule_type = "once"
    THEN IF job.schedule.time - now <= 0 THEN NoHandle
         ELSE [kind |-> "timeout", job |-> Snapshot(job)]
  ELSE IF ~cronValidate(job.schedule) THEN NoHandle
  ELSE [kind |-> "cron", job |-> Snapshot(job)]

\* a list of armed handles without one occurrence of h
RemoveOne(hs, h) ==
  IF \E i \in 1..Len(hs) : hs[i] = h
    THEN LET i == CHOOSE k \in 1..Len(hs) : hs[k] = h IN
         SubSeq(hs, 1, i - 1) \o SubSeq(hs, i + 1, Len(hs))
    ELSE hs

\* the entry of activeTasks is deleted while its timer / task stays armed
stopExisting_keepsArmed(lv, handles, j) == lv

\* existing.stop() on the entry activeTasks holds for j, if any
stopExisting(lv, handles, j) ==
  IF handles[j] = NoHandle THEN lv
  ELSE [lv EXCEPT ![j] = RemoveOne(lv[j], handles[j])]

\* setTimeout / cron.schedule: a new handle is armed
arm(lv, j, h) == IF h = NoHandle THEN lv ELSE [lv EXCEPT ![j] = Append(lv[j], h)]

\* scheduleJob: the armed handles after the call
rescheduled(lv, handles, j, job) ==
  arm(stopExisting(lv, handles, j), j, scheduleJob(job))

\* formatJob: the fields of a row that list reports
formatJob(row, handles, j) ==
  [enabled |-> row.enabled # 0,
   scheduleType |-> row.schedule_type,
   runCount |-> row.run_count,
   isScheduled |-> handles[j] # NoHandle]

\* cronTool.execute, action add: what it returns
addReturn(s) == IF addError(s) # "ok" THEN addError(s) ELSE "success"

\* cronTool.execute, action add
CronAdd(s, deleteAfterRun) ==
  /\ nextJobId <= MaxJobs
  /\ lastReply' = addReturn(s)
  /\ IF addError(s) # "ok"
       THEN UNCHANGED << jobRow, activeTasks, nextJobId, live >>
       ELSE LET id == nextJobId
                job == [schedule |-> s, schedule_type |-> scheduleType(s),
                        enabled |-> 1,
                        delete_after_run |-> IF deleteAfterRun THEN 1 ELSE 0,
                        run_count |-> 0]
            IN /\ jobRow' = [jobRow EXCEPT ![id] = job]
               /\ activeTasks' = [activeTasks EXCEPT ![id] = scheduleJob(job)]
               /\ live' = rescheduled(live, activeTasks, id, job)
               /\ nextJobId' = nextJobId + 1
  /\ UNCHANGED << now, inFlight, cronRuns, firings, foreignKeys >>
  /\ UNCHANGED << chatVars, taskVars, sideVars >>

\* cronTool.execute, action update: what it returns
updateReturn(j, enabledIn, darIn, s, other) ==
  IF jobRow[j] = NoJob THEN "not_found"
  ELSE IF s.shape # "empty" /\ updateScheduleError(s) # "ok"
    THEN updateScheduleError(s)
  ELSE IF ~other /\ enabledIn = "absent" /\ darIn = "absent"
          /\ s.shape = "empty"
    THEN "no_changes"
  ELSE "success"

\* the row after the UPDATE statement of action update
patchedRow(row, enabledIn, darIn, s) ==
  [schedule |-> IF s.shape # "empty" THEN s ELSE row.schedule,
   schedule_type |->
     IF s.shape # "empty" THEN scheduleType(s) ELSE row.schedule_type,
   enabled |-> IF enabledIn = "true" THEN 1
               ELSE IF enabledIn = "false" THEN 0 ELSE row.enabled,
   delete_after_run |-> IF darIn = "true" THEN 1
                        ELSE IF darIn = "false" THEN 0
                        ELSE row.delete_after_run,
   run_count |-> row.run_count]

\* cronTool.execute, action update
CronUpdate(j, enabledIn, darIn, s, other) ==
  /\ lastReply' = updateReturn(j, enabledIn, darIn, s, other)
  /\ IF updateReturn(j, enabledIn, darIn, s, other) # "success"
       THEN UNCHANGED << jobRow, activeTasks, live >>
       ELSE LET updated == patchedRow(jobRow[j], enabledIn, darIn, s) IN
            /\ jobRow' = [jobRow EXCEPT ![j] = updated]
            /\ activeTasks' = [activeTasks EXCEPT ![j] = scheduleJob(updated)]
            /\ live' = rescheduled(live, activeTasks, j, updated)
  /\ UNCHANGED << now, inFlight, nextJobId, cronRuns, firings, foreignKeys >>
  /\ UNCHANGED << chatVars, taskVars, sideVars >>

\* DELETE FROM cron_jobs WHERE id = j: with foreign keys enforced the rows of
\* cron_runs that reference the job go with it (ON DELETE CASCADE)
runsAfterDelete(runs, j) ==
  IF foreignKeys THEN [runs EXCEPT ![j] = << >>] ELSE runs

\* a remove that does not look for the row
removeReturn_noLookup(rows, j) == "success"

\* remove: if (!job) return not_found, on the row selected by id
removeReturn(rows, j) == IF rows[j] = NoJob THEN "not_found" ELSE "success"

\* cronTool.execute, action remove
CronRemove(j) ==
  /\ IF removeReturn(jobRow, j) = "not_found"
       THEN /\ lastReply' = "not_found"
            /\ UNCHANGED << jobRow, activeTasks, live, cronRuns >>
       ELSE /\ lastReply' = "success"
            /\ live' = stopExisting(live, activeTasks, j)
            /\ activeTasks' = [activeTasks EXCEPT ![j] = NoHandle]
            /\ jobRow' = [jobRow EXCEPT ![j] = NoJob]
            /\ cronRuns' = runsAfterDelete(cronRuns, j)
  /\ UNCHANGED << now, inFlight, nextJobId, firings, foreignKeys >>
  /\ UNCHANGED << chatVars, taskVars, sideVars >>

\* cronTool.execute, action wake: what it returns
wakeReturn(j) ==
  IF jobRow[j] = NoJob THEN "not_found"
  ELSE IF jobRow[j].enabled # 0 THEN "already_enabled"
  ELSE "success"

\* cronTool.execute, action wake
CronWake(j) ==
  /\ lastReply' = wakeReturn(j)
  /\ IF jobRow[j] = NoJob
       THEN UNCHANGED << jobRow, activeTasks, live >>
       ELSE LET updated == [jobRow[j] EXCEPT !.enabled = 1] IN
            /\ jobRow' = [jobRow EXCEPT ![j] = updated]
            /\ activeTasks' = [activeTasks EXCEPT ![j] = scheduleJob(updated)]
            /\ live' = rescheduled(live, activeTasks, j, updated)
  /\ UNCHANGED << now, inFlight, nextJobId, cronRuns, firings, foreignKeys >>
  /\ UNCHANGED << chatVars, taskVars, sideVars >>

\* executeJob up to its await of lineClient.pushMessage
\* (one call in flight per job id)
CanStartJob(j) == inFlight[j] = NoSnapshot /\ firings < MaxRuns

\* cronTool.execute, action run: executeJob on the row read from the table
CronRun(j) ==
  /\ jobRow[j] # NoJob
  /\ CanStartJob(j)
  /\ firings' = firings + 1
  /\ inFlight' = [inFlight EXCEPT ![j] = Snapshot(jobRow[j])]
  /\ UNCHANGED << now, jobRow, activeTasks, nextJobId, live, cronRuns,
                  foreignKeys, lastReply >>
  /\ UNCHANGED << chatVars, taskVars, sideVars >>

\* the setTimeout callback of a one-time job:
\* executeJob(job, dataDir); activeTasks.delete(job.id)
TimerFires(j) ==
  /\ CanStartJob(j)
  /\ \E i \in 1..Len(live[j]) :
       /\ live[j][i].kind = "timeout"
       /\ now >= live[j][i].job.time
       /\ inFlight' = [inFlight EXCEPT ![j] = live[j][i].job]
       /\ live' = [live EXCEPT ![j] = RemoveOne(live[j], live[j][i])]
  /\ firings' = firings + 1
  /\ activeTasks' = [activeTasks EXCEPT ![j] = NoHandle]
  /\ UNCHANGED << now, jobRow, nextJobId, cronRuns, foreignKeys, lastReply >>
  /\ UNCHANGED << chatVars, taskVars, sideVars >>

\* the node-cron callback of a recurring job: executeJob(job, dataDir)
CronTick(j) ==
  /\ CanStartJob(j)
  /\ \E i \in 1..Len(live[j]) :
       /\ live[j][i].kind = "cron"
       /\ inFlight' = [inFlight EXCEPT ![j] = live[j][i].job]
  /\ firings' = firings + 1
  /\ UNCHANGED << now, jobRow, activeTasks, nextJobId, live, cronRuns,
                  foreignKeys, lastReply >>
  /\ UNCHANGED << chatVars, taskVars, sideVars >>

\* UPDATE cron_jobs SET ..., run_count = run_count + 1 WHERE id = j
countedRun(rows, j) ==
  IF rows[j] = NoJob THEN rows
  ELSE [rows EXCEPT ![j].run_count = rows[j].run_count + 1]

\* INSERT INTO cron_runs: refused when foreign keys are enforced and the job
\* row is gone
insertRunFails(rows, j) == foreignKeys /\ rows[j] = NoJob

\* a cleanup test that looks at the flag only
cleansUp_flagOnly(job) == job.delete_after_run = 1

\* if (job.schedule_type === "once" || job.delete_after_run): the fired job
\* is deleted or disabled and its handle is stopped
cleansUp(job) == job.schedule_type = "once" \/ job.delete_after_run = 1

\* executeJob after pushMessage has resolved
JobPushOk(j) ==
  /\ inFlight[j] # NoSnapshot
  /\ inFlight' = [inFlight EXCEPT ![j] = NoSnapshot]
  /\ LET job == inFlight[j]
         counted == countedRun(jobRow, j)
         logged == [cronRuns EXCEPT ![j] = Append(cronRuns[j], "success")]
     IN
     IF insertRunFails(jobRow, j)
       THEN \* the INSERT throws, the INSERT of the catch block throws again:
            \* executeJob rejects
            UNCHANGED << jobRow, activeTasks, live, cronRuns >>
     ELSE IF cleansUp(job)
       THEN /\ jobRow' =
                 [counted EXCEPT ![j] =
                    IF job.delete_after_run = 1 THEN NoJob
                    ELSE IF counted[j] = NoJob THEN NoJob
                    ELSE [counted[j] EXCEPT !.enabled = 0]]
            /\ cronRuns' =
                 IF job.delete_after_run = 1 /\ jobRow[j] # NoJob
                   THEN runsAfterDelete(logged, j) ELSE logged
            /\ live' = stopExisting(live, activeTasks, j)
            /\ activeTasks' = [activeTasks EXCEPT ![j] = NoHandle]
       ELSE /\ jobRow' = counted
            /\ cronRuns' = logged
            /\ UNCHANGED << activeTasks, live >>
  /\ UNCHANGED << now, nextJobId, firings, foreignKeys, lastReply >>
  /\ UNCHANGED << chatVars, taskVars, sideVars >>

\* executeJob after pushMessage has rejected: last_status, last_error,
\* last_run_at and run_count are written and an error run is logged
JobPushFails(j) ==
  /\ inFlight[j] # NoSnapshot
  /\ inFlight' = [inFlight EXCEPT ![j] = NoSnapshot]
  /\ IF insertRunFails(jobRow, j)
       THEN UNCHANGED << jobRow, cronRuns >>
       ELSE /\ jobRow' = countedRun(jobRow, j)
            /\ cronRuns' = [cronRuns EXCEPT ![j] = Append(cronRuns[j], "error")]
  /\ UNCHANGED << now, activeTasks, nextJobId, live, firings, foreignKeys,
                  lastReply >>
  /\ UNCHANGED << chatVars, taskVars, sideVars >>

\* time passes
ClockTick ==
  /\ now < MaxTime
  /\ now' = now + 1
  /\ UNCHANGED << jobRow, activeTasks, inFlight, nextJobId, live, cronRuns,
                  firings, foreignKeys, lastReply >>
  /\ UNCHANGED << chatVars, taskVars, sideVars >>

\* the process restarts: the in-memory state is lost and initCronJobs
\* schedules every row with enabled = 1
initCronJobs ==
  [j \in JobIds |->
     IF jobRow[j] # NoJob /\ jobRow[j].enabled = 1
       THEN scheduleJob(jobRow[j]) ELSE NoHandle]

CronRestart ==
  /\ activeTasks' = initCronJobs
  /\ live' = [j \in JobIds |->
                IF initCronJobs[j] = NoHandle THEN << >>
                ELSE << initCronJobs[j] >>]
  /\ inFlight' = [j \in JobIds |-> NoSnapshot]
  /\ UNCHANGED << now, jobRow, nextJobId, cronRuns, firings, foreignKeys,
                  lastReply >>
  /\ UNCHANGED << chatVars, taskVars, sideVars >>

InitCron ==
  /\ now = 0
  /\ jobRow = [j \in JobIds |-> NoJob]
  /\ activeTasks = [j \in JobIds |-> NoHandle]
  /\ inFlight = [j \in JobIds |-> NoSnapshot]
  /\ nextJobId = 1
  /\ live = [j \in JobIds |-> << >>]
  /\ cronRuns = [j \in JobIds |-> << >>]
  /\ firings = 0
  /\ lastReply = "none"

NextCron ==
  \/ \E s \in ScheduleInputs, d \in BOOLEAN : CronAdd(s, d)
  \/ \E j \in JobIds, e \in OptBool, d \in OptBool, s \in ScheduleInputs,
        o \in BOOLEAN : CronUpdate(j, e, d, s, o)
  \/ \E j \in JobIds : CronRemove(j)
  \/ \E j \in JobIds : CronWake(j)
  \/ \E j \in JobIds : CronRun(j)
  \/ \E j \in JobIds : TimerFires(j)
  \/ \E j \in JobIds : CronTick(j)
  \/ \E j \in JobIds : JobPushOk(j)
  \/ \E j \in JobIds : JobPushFails(j)
  \/ ClockTick
  \/ CronRestart

\* ------------------------------------------------------------------------
\* line.ts: the webhook handler
\* ------------------------------------------------------------------------
EventIds == 1..MaxEvents

\* a webhook event, by what handleWebhook looks at: a message event with
\* userId and replyToken whose message processMessage accepts, an event of
\* another type, a message event without userId or replyToken, a message
\* of a type processMessage returns null for
EventKinds == {"message", "other_type", "no_user", "unsupported"}
Batches == UNION {[1..n -> EventKinds] : n \in 1..MaxEvents}

\* what an error thrown by chat() or replyMessage carries: the marker its
\* message contains, and its HTTP status (0: none)
ErrorMarkers == {"quota", "rate_limit", "none"}
ErrorStatuses == {0, 401, 500}
Errors == [marker : ErrorMarkers, status : ErrorStatuses]
NoError == [marker |-> "-", status |-> 0]

\* the catch block of handleWebhook: the text of the error reply
errorMsg(err) ==
  IF err.marker = "quota" THEN "AI quota"
  ELSE IF err.marker = "credit balance is too low" THEN "AI credit"
  ELSE IF err.marker = "authentication" \/ err.status = 401 THEN "API key"
  ELSE IF err.marker = "rate_limit" \/ err.status = 429 THEN "too fast"
  ELSE IF err.marker = "overloaded" \/ err.status = 529 THEN "overloaded"
  ELSE IF err.status >= 500 THEN "server problem"
  ELSE "error"
ErrorTexts == {errorMsg(e) : e \in Errors}

NoLog == [chat |-> "none", replies |-> << >>]

\* handleWebhook is called with the events of a request (one request is
\* followed to its end)
HandleWebhook(events) ==
  /\ hookPc = "idle"
  /\ batch' = events
  /\ eventIdx' = 1
  /\ hookPc' = "loop"
  /\ caught' = NoError
  /\ hookLog' = [i \in EventIds |-> NoLog]
  /\ UNCHANGED << chatVars, taskVars, cronVars, notHook >>

\* the three continue statements at the head of the loop body
EventSkipped ==
  /\ hookPc = "loop"
  /\ eventIdx <= Len(batch)
  /\ batch[eventIdx] # "message"
  /\ hookLog' = [hookLog EXCEPT ![eventIdx].chat = "skipped"]
  /\ eventIdx' = eventIdx + 1
  /\ UNCHANGED << batch, hookPc, caught >>
  /\ UNCHANGED << chatVars, taskVars, cronVars, notHook >>

\* const result = await chat(...) resolves
EventChatReturns ==
  /\ hookPc = "loop"
  /\ eventIdx <= Len(batch)
  /\ batch[eventIdx] = "message"
  /\ hookLog' = [hookLog EXCEPT ![eventIdx].chat = "returned"]
  /\ hookPc' = "reply"
  /\ UNCHANGED << batch, eventIdx, caught >>
  /\ UNCHANGED << chatVars, taskVars, cronVars, notHook >>

\* const result = await chat(...) rejects: the catch block is entered
EventChatThrows(err) ==
  /\ hookPc = "loop"
  /\ eventIdx <= Len(batch)
  /\ batch[eventIdx] = "message"
  /\ hookLog' = [hookLog EXCEPT ![eventIdx].chat = "threw"]
  /\ hookPc' = "catch"
  /\ caught' = err
  /\ UNCHANGED << batch, eventIdx >>
  /\ UNCHANGED << chatVars, taskVars, cronVars, notHook >>

\* await lineClient.replyMessage({replyToken, messages}) of the try block
ReplySettles(ok, err) ==
  /\ hookPc = "reply"
  /\ hookLog' = [hookLog EXCEPT
                   ![eventIdx].replies = Append(@, "answer")]
  /\ IF ok
       THEN /\ hookPc' = "loop"
            /\ eventIdx' = eventIdx + 1
            /\ UNCHANGED caught
       ELSE /\ hookPc' = "catch"
            /\ caught' = err
            /\ UNCHANGED eventIdx
  /\ UNCHANGED batch
  /\ UNCHANGED << chatVars, taskVars, cronVars, notHook >>

\* the error reply without the try block around it
afterErrorReply_noTry(ok) == IF ok THEN "loop" ELSE "rejected"

\* try { await lineClient.replyMessage(...) } catch (replyErr) { log }
afterErrorReply(ok) == "loop"

\* the catch block of handleWebhook: one reply with the error text
ErrorReplySettles(ok) ==
  /\ hookPc = "catch"
  /\ hookLog' = [hookLog EXCEPT
                   ![eventIdx].replies = Append(@, errorMsg(caught))]
  /\ hookPc' = afterErrorReply(ok)
  /\ eventIdx' = IF afterErrorReply(ok) = "loop" THEN eventIdx + 1
                 ELSE eventIdx
  /\ UNCHANGED << batch, caught >>
  /\ UNCHANGED << chatVars, taskVars, cronVars, notHook >>

\* the for loop is over
HookReturns ==
  /\ hookPc = "loop"
  /\ eventIdx > Len(batch)
  /\ hookPc' = "returned"
  /\ UNCHANGED << batch, eventIdx, caught, hookLog >>
  /\ UNCHANGED << chatVars, taskVars, cronVars, notHook >>

InitHook ==
  /\ batch = << >>
  /\ eventIdx = 1
  /\ hookPc = "idle"
  /\ caught = NoError
  /\ hookLog = [i \in EventIds |-> NoLog]

NextHook ==
  \/ \E events \in Batches : HandleWebhook(events)
  \/ EventSkipped
  \/ EventChatReturns
  \/ \E err \in Errors : EventChatThrows(err)
  \/ \E ok \in BOOLEAN, err \in Errors : ReplySettles(ok, err)
  \/ \E ok \in BOOLEAN : ErrorReplySettles(ok)
  \/ HookReturns

\* ------------------------------------------------------------------------
\* gateway.ts and sessions-send.ts: the owner-only tools
\* ------------------------------------------------------------------------
NoUserId == "undefined"
Callers == Users \cup {NoUserId}

\* the comma-separated entries OWNER_USER_ID can hold, and the variable unset
Unset == << "unset" >>
OwnerEntries == {"u1", " u2 ", ""}
OwnerValues ==
  {<< e >> : e \in OwnerEntries}
    \cup {v \in [1..2 -> OwnerEntries] : v[1] # v[2]}

\* String.prototype.trim on an entry
trim(e) == IF e = " u2 " THEN "u2" ELSE e

\* process.env.OWNER_USER_ID?.trim() is empty or undefined
noRestriction(v) == v = Unset \/ (Len(v) = 1 /\ trim(v[1]) = "")

\* isOwner without the test of a missing userId
isOwner_noIdCheck(v, userId) ==
  IF noRestriction(v) THEN TRUE
  ELSE IF userId = NoUserId THEN TRUE
  ELSE \E i \in 1..Len(v) : trim(v[i]) = userId

\* isOwner
isOwner(v, userId) ==
  IF noRestriction(v) THEN TRUE
  ELSE IF userId = NoUserId THEN FALSE
  ELSE \E i \in 1..Len(v) : trim(v[i]) = userId

\* status stands for the three actions that only read: status, config.get
\* and logs
GatewayActions == {"status", "config.set", "restart", ""}
ConfigKeys == {"OWNER_USER_ID", "GEMINI_MODEL"}
KeyInputs == ConfigKeys \cup {"LINE_CHANNEL_SECRET", ""}
NoOverride == << "none" >>
ModelValue == << "gemini-x" >>
\* the values config.set is called with for a key
ValuesFor(key) == IF key = "OWNER_USER_ID" THEN OwnerValues ELSE {ModelValue}

NoCall == [tool |-> "none", caller |-> NoUserId, result |-> "none"]

\* gatewayTool.execute: what it returns
gatewayReturn(caller, action, key) ==
  IF ~isOwner(ownerEnv, caller) THEN "forbidden"
  ELSE IF action = "config.set"
    THEN IF key = "" THEN "missing_key"
         ELSE IF key = "LINE_CHANNEL_SECRET" THEN "blocked"
         ELSE "success"
  ELSE IF action = "" THEN "unknown_action"
  ELSE "success"

\* gatewayTool.execute
Gateway(caller, action, key, value) ==
  /\ gatePc # "exited"
  /\ gateReply' = [tool |-> "gateway", caller |-> caller,
                   result |-> gatewayReturn(caller, action, key)]
  /\ IF gatewayReturn(caller, action, key) = "success" /\ action = "config.set"
       THEN /\ configOverrides' = [configOverrides EXCEPT ![key] = value]
            /\ ownerEnv' = IF key = "OWNER_USER_ID" THEN value ELSE ownerEnv
            /\ UNCHANGED gatePc
       ELSE IF gatewayReturn(caller, action, key) = "success"
               /\ action = "restart"
         THEN /\ gatePc' = "restarting"
              /\ UNCHANGED << configOverrides, ownerEnv >>
       ELSE UNCHANGED << configOverrides, ownerEnv, gatePc >>
  /\ UNCHANGED << pushed, sessionRows >>
  /\ UNCHANGED << chatVars, taskVars, cronVars, notGate >>

\* the setTimeout callback of restart: process.exit(0)
ProcessExits ==
  /\ gatePc = "restarting"
  /\ gatePc' = "exited"
  /\ UNCHANGED << ownerEnv, configOverrides, pushed, sessionRows, gateReply >>
  /\ UNCHANGED << chatVars, taskVars, cronVars, notGate >>

\* the text sessions_send pushes
sendText(message, asBot) ==
  IF asBot THEN << "MyClaw: ", message >> ELSE << message >>

\* sessionsSendTool.execute: what it returns
sessionsSendReturn(caller, target, message, pushOk) ==
  IF ~isOwner(ownerEnv, caller) THEN "forbidden"
  ELSE IF target = "" THEN "missing_target"
  ELSE IF message = "" THEN "missing_message"
  ELSE IF ~pushOk THEN "send_failed"
  ELSE "success"

\* sessionsSendTool.execute
SessionsSend(caller, target, message, asBot, pushOk, insertOk) ==
  /\ gatePc # "exited"
  /\ Len(pushed) < MaxSends
  /\ gateReply' = [tool |-> "sessions_send", caller |-> caller,
                   result |->
                     sessionsSendReturn(caller, target, message, pushOk)]
  /\ IF sessionsSendReturn(caller, target, message, TRUE) = "success"
       THEN /\ pushed' = Append(pushed, [to |-> target,
                                         text |-> sendText(message, asBot)])
            /\ sessionRows' =
                 IF pushOk /\ insertOk
                   THEN Append(sessionRows,
                               [session_id |-> target,
                                content |-> sendText(message, asBot)])
                   ELSE sessionRows
       ELSE UNCHANGED << pushed, sessionRows >>
  /\ UNCHANGED << ownerEnv, configOverrides, gatePc >>
  /\ UNCHANGED << chatVars, taskVars, cronVars, notGate >>

InitGate ==
  /\ ownerEnv = Unset
  /\ configOverrides = [k \in ConfigKeys |-> NoOverride]
  /\ gatePc = "up"
  /\ pushed = << >>
  /\ sessionRows = << >>
  /\ gateReply = NoCall

NextGate ==
  \/ \E c \in Callers, a \in GatewayActions, k \in KeyInputs :
       \E v \in ValuesFor(k) : Gateway(c, a, k, v)
  \/ ProcessExits
  \/ \E c \in Callers, t \in Users \cup {""}, m \in {"hello", ""},
        b \in BOOLEAN, p \in BOOLEAN :
       \E i \in IF p THEN BOOLEAN ELSE {FALSE} : SessionsSend(c, t, m, b, p, i)

\* ------------------------------------------------------------------------
\* web-shared.ts, web-search.ts, web-fetch.ts: the result caches
\* ------------------------------------------------------------------------
WebTools == {"web_search", "web_fetch"}

\* the query / url of a request as typed, and the key it is cached under
RawKeys == {"q", " Q "}
normalizeCacheKey(value) == IF value = " Q " THEN "q" ELSE value

NoEntry == [expiresAt |-> -1, insertedAt |-> -1]

\* Date.now() in milliseconds
nowMs == clock * 60000

\* resolveCacheTtlMs(undefined, fallbackMinutes)
resolveCacheTtlMs(fallbackMinutes) == fallbackMinutes * 60000

\* readCache: whether the entry is returned (an expired entry is deleted)
cacheHit(entry) == entry # NoEntry /\ ~(nowMs > entry.expiresAt)

\* writeCache on a cache that holds the entries given: the entry stored
\* under the key (one key per cache is followed, so the eviction of the
\* oldest of 100 entries never happens)
writeCache(entry, ttlMs) ==
  IF ttlMs <= 0 THEN entry
  ELSE [expiresAt |-> nowMs + ttlMs, insertedAt |-> nowMs]

NoWeb == [tool |-> "none", cached |-> FALSE, ok |-> FALSE, age |-> 0]

\* webSearchTool.execute / webFetchTool.execute with the default ttl:
\* runWebSearch / runWebFetch read the cache, fetch on a miss and cache a
\* successful result
WebRequest(tool, raw, fetchOk) ==
  /\ normalizeCacheKey(raw) = "q"
  /\ LET entry == cache[tool]
         ttlMs == resolveCacheTtlMs(DEFAULT_CACHE_TTL_MINUTES)
     IN IF cacheHit(entry)
          THEN /\ lastWeb' = [tool |-> tool, cached |-> TRUE, ok |-> TRUE,
                              age |-> nowMs - entry.insertedAt]
               /\ UNCHANGED cache
          ELSE /\ lastWeb' = [tool |-> tool, cached |-> FALSE, ok |-> fetchOk,
                              age |-> 0]
               /\ cache' = [cache EXCEPT ![tool] =
                              IF fetchOk THEN writeCache(NoEntry, ttlMs)
                              ELSE NoEntry]
  /\ UNCHANGED clock
  /\ UNCHANGED << chatVars, taskVars, cronVars, notWeb >>

\* a minute passes
MinuteTick ==
  /\ clock < MaxMinutes
  /\ clock' = clock + 1
  /\ UNCHANGED << cache, lastWeb >>
  /\ UNCHANGED << chatVars, taskVars, cronVars, notWeb >>

InitWeb ==
  /\ clock = 0
  /\ cache = [t \in WebTools |-> NoEntry]
  /\ lastWeb = NoWeb

NextWeb ==
  \/ \E t \in WebTools, raw \in RawKeys, ok \in BOOLEAN : WebRequest(t, raw, ok)
  \/ MinuteTick

\* ------------------------------------------------------------------------
\* ai.ts: the media results of concurrent chat() calls
\* ------------------------------------------------------------------------
\* a media url is identified by the user whose exchange produced it
NoMedia == "undefined"
NoMediaPair == [audio |-> NoMedia, image |-> NoMedia]

\* a tool result, by what checkToolResultForMedia reads from it: whether it
\* parses as JSON, and its success, audioUrl and imageUrl fields
ToolResults ==
  [json : BOOLEAN, success : BOOLEAN, audioUrl : BOOLEAN, imageUrl : BOOLEAN]

\* checkToolResultForMedia: whether the result sets _lastAudioResult
setsAudio(r) == r.json /\ r.audioUrl /\ r.success
\* checkToolResultForMedia: whether the result sets _lastImageUrl
setsImage(r) == r.json /\ r.imageUrl /\ r.success

\* chat() up to the provider call: the module variables are reset
MediaChatStart(u) ==
  /\ exPc[u] = "idle"
  /\ exchanges < MaxExchanges
  /\ exchanges' = exchanges + 1
  /\ exPc' = [exPc EXCEPT ![u] = "loop"]
  /\ lastAudioResult' = NoMedia
  /\ lastImageUrl' = NoMedia
  /\ madeMedia' = [madeMedia EXCEPT ![u] = NoMediaPair]
  /\ chatResult' = [chatResult EXCEPT ![u] = NoMediaPair]
  /\ UNCHANGED << chatVars, taskVars, cronVars, notMedia >>

\* a tool call of u's exchange has resolved: checkToolResultForMedia(result)
MediaToolResult(u, r) ==
  /\ exPc[u] = "loop"
  /\ lastAudioResult' = IF setsAudio(r) THEN u ELSE lastAudioResult
  /\ lastImageUrl' = IF setsImage(r) THEN u ELSE lastImageUrl
  /\ madeMedia' = [madeMedia EXCEPT ![u] =
                     [audio |-> IF setsAudio(r) THEN u ELSE @.audio,
                      image |-> IF setsImage(r) THEN u ELSE @.image]]
  /\ UNCHANGED << exPc, chatResult, exchanges >>
  /\ UNCHANGED << chatVars, taskVars, cronVars, notMedia >>

\* the provider loop returned: chat() builds the ChatResult from the module
\* variables
MediaChatReturns(u) ==
  /\ exPc[u] = "loop"
  /\ exPc' = [exPc EXCEPT ![u] = "done"]
  /\ chatResult' = [chatResult EXCEPT ![u] =
                      [audio |-> lastAudioResult, image |-> lastImageUrl]]
  /\ UNCHANGED << lastAudioResult, lastImageUrl, madeMedia, exchanges >>
  /\ UNCHANGED << chatVars, taskVars, cronVars, notMedia >>

\* the caller has used the ChatResult
MediaChatUsed(u) ==
  /\ exPc[u] = "done"
  /\ exPc' = [exPc EXCEPT ![u] = "idle"]
  /\ madeMedia' = [madeMedia EXCEPT ![u] = NoMediaPair]
  /\ chatResult' = [chatResult EXCEPT ![u] = NoMediaPair]
  /\ UNCHANGED << lastAudioResult, lastImageUrl, exchanges >>
  /\ UNCHANGED << chatVars, taskVars, cronVars, notMedia >>

InitMedia ==
  /\ exPc = [u \in Users |-> "idle"]
  /\ lastAudioResult = NoMedia
  /\ lastImageUrl = NoMedia
  /\ madeMedia = [u \in Users |-> NoMediaPair]
  /\ chatResult = [u \in Users |-> NoMediaPair]
  /\ exchanges = 0

NextMedia ==
  \/ \E u \in Users : MediaChatStart(u)
  \/ \E u \in Users, r \in ToolResults : MediaToolResult(u, r)
  \/ \E u \in Users : MediaChatReturns(u)
  \/ \E u \in Users : MediaChatUsed(u)

\* ------------------------------------------------------------------------
\* The status query of the subagents tool (subagents.ts), over the tasks
\* created so far: ids are 1, 2, ... in the order of created_at
\* ------------------------------------------------------------------------

\* the oldest and the newest task created so far
QueryTargets == {t \in {1, created} : 1 <= t /\ t <= created}

\* getTasksFromDb(dataDir, limit):
\* SELECT * FROM background_tasks ORDER BY created_at DESC LIMIT ?
getTasksFromDb(limit) == {t \in 1..created : t > created - limit}

NoStatus == [tool |-> "none", target |-> 0, answer |-> "none"]

\* subagentsTool.execute, action status: the running entry first, then the
\* rows of getTasksFromDb(dataDir, 100), then not_found
statusReturn(target) ==
  IF target \in registry THEN "running"
  ELSE IF target \in getTasksFromDb(STATUS_ROW_LIMIT) THEN "row"
  ELSE "not_found"

\* sessions_spawn: INSERT the row, runningTasks.set(id, ...), return accepted
StatSpawn ==
  /\ created < MaxCreated
  /\ Cardinality(registry) < MaxRegistered
  /\ created' = created + 1
  /\ registry' = registry \cup {created + 1}
  /\ statusReply' = [tool |-> "spawn", target |-> created + 1,
                     answer |-> "accepted"]
  /\ UNCHANGED << chatVars, taskVars, cronVars, notStat >>

\* the body of a task ends, or the task is cancelled: the row gets a terminal
\* status and runningTasks.delete(taskId)
StatFinish(t) ==
  /\ t \in registry
  /\ registry' = registry \ {t}
  /\ UNCHANGED << created, statusReply >>
  /\ UNCHANGED << chatVars, taskVars, cronVars, notStat >>

\* subagentsTool.execute, action status, on the id of a task that was spawned
StatusQuery(target) ==
  /\ statusReply' = [tool |-> "status", target |-> target,
                     answer |-> statusReturn(target)]
  /\ UNCHANGED << created, registry >>
  /\ UNCHANGED << chatVars, taskVars, cronVars, notStat >>

InitStat ==
  /\ created = 0
  /\ registry = {}
  /\ statusReply = NoStatus

NextStat ==
  \/ StatSpawn
  \/ \E t \in registry : StatFinish(t)
  \/ \E target \in QueryTargets : StatusQuery(target)

\* ------------------------------------------------------------------------
\* web_fetch: the guarded fetch that follows redirects by hand (web-fetch.ts)
\* ------------------------------------------------------------------------

\* hostnames as their dot-separated labels; "unparsable" is a url that
\* new URL() rejects
Hosts ==
  { << "example", "com" >>, << "11", "0", "0", "1" >>,
    << "172", "32", "0", "1" >>, << "localhost" >>,
    << "10", "0", "0", "1" >>, << "172", "16", "0", "1" >>,
    << "192", "168", "1", "1" >>, << "svc", "internal" >>,
    << "unparsable" >> }

\* /^172\.(1[6-9]|2\d|3[01])\./
PrivateSecondOctets ==
  {"16", "17", "18", "19", "20", "21", "22", "23", "24", "25", "26", "27",
   "28", "29", "30", "31"}

\* isPrivateUrl: the tests on the hostname; a url that does not parse is
\* private
isPrivateUrl(h) ==
  \/ h = << "unparsable" >>
  \/ h \in {<< "localhost" >>, << "127", "0", "0", "1" >>, << "::1" >>,
            << "0", "0", "0", "0" >>}
  \/ Len(h) > 1 /\ h[1] = "10"
  \/ Len(h) > 2 /\ h[1] = "192" /\ h[2] = "168"
  \/ Len(h) > 2 /\ h[1] = "172" /\ h[2] \in PrivateSecondOctets
  \/ Len(h) > 1 /\ h[Len(h)] \in {"local", "internal"}

\* a guard that looks at the first url only
blocked_firstOnly(h, i) == i = 0 /\ isPrivateUrl(h)

\* the test at the top of every iteration of the loop of fetchWithSsrfGuard
blocked(h, i) == isPrivateUrl(h)

\* what fetch resolves with: a final response, a redirect with a Location,
\* a redirect without one, or with one that new URL() rejects
FetchAnswers == {"final", "redirect", "no_location", "bad_location"}

\* the top of iteration i of the loop on url h: leave the loop, throw, or
\* call fetch
iteration(h, i, sent) ==
  IF i > DEFAULT_FETCH_MAX_REDIRECTS
    THEN [pc |-> "done", result |-> "too_many_redirects", sent |-> sent]
  ELSE IF blocked(h, i)
    THEN [pc |-> "done", result |-> "ssrf_blocked", sent |-> sent]
  ELSE [pc |-> "awaiting", result |-> "none", sent |-> Append(sent, h)]

\* runWebFetch calls fetchWithSsrfGuard on the url of the tool call
FetchStart(h) ==
  /\ fetchPc = "idle"
  /\ LET it == iteration(h, 0, << >>) IN
     /\ fetchPc' = it.pc
     /\ fetchResult' = it.result
     /\ requests' = it.sent
  /\ hop' = 0
  /\ UNCHANGED << chatVars, taskVars, cronVars, notFetch >>

\* fetch(currentUrl, {redirect: "manual"}) resolves
FetchResolves(answer, location) ==
  /\ fetchPc = "awaiting"
  /\ CASE answer = "final" ->
            /\ fetchPc' = "done"
            /\ fetchResult' = "response"
            /\ UNCHANGED << hop, requests >>
       [] answer \in {"no_location", "bad_location"} ->
            \* break: the statement after the loop throws
            /\ fetchPc' = "done"
            /\ fetchResult' = "too_many_redirects"
            /\ UNCHANGED << hop, requests >>
       [] answer = "redirect" ->
            LET it == iteration(location, hop + 1, requests) IN
            /\ hop' = hop + 1
            /\ fetchPc' = it.pc
            /\ fetchResult' = it.result
            /\ requests' = it.sent
  /\ UNCHANGED << chatVars, taskVars, cronVars, notFetch >>

InitFetch ==
  /\ fetchPc = "idle"
  /\ hop = 0
  /\ requests = << >>
  /\ fetchResult = "none"

NextFetch ==
  \/ \E h \in Hosts : FetchStart(h)
  \/ \E a \in FetchAnswers : \E h \in Hosts : FetchResolves(a, h)

\* ------------------------------------------------------------------------
\* The recipient of a scheduled job (cron.ts): who added it, the
\* target_user_id of its row and of the job object its handle holds, and
\* who was sent its message
\* ------------------------------------------------------------------------

OwnedJobIds == 1..MaxOwnedJobs

\* who started a firing: the caller of run, or the handle of the job
Starters == Users \cup {"handle"}

\* a firing that sends to whoever started it
recipient_caller(target_user_id, by) ==
  IF by \in Users THEN by ELSE target_user_id

\* executeJob: lineClient.pushMessage({ to: job.target_user_id, ... })
recipient(target_user_id, by) == target_user_id

\* executeJob on a job object, started by a caller of run or by the handle;
\* the push resolves or rejects
deliveredAfter(sent, j, target_user_id, by, ok) ==
  IF ok
    THEN [sent EXCEPT ![j] =
            sent[j] \cup {[to |-> recipient(target_user_id, by), by |-> by]}]
    ELSE sent

\* cronTool.execute, action add: the row takes context.userId as its
\* target_user_id; scheduleJob(job) arms a handle or returns false
RcptAdd(u, armed) ==
  /\ nextOwnedId <= MaxOwnedJobs
  /\ IF u = NoUserId
       THEN \* no_user
            UNCHANGED << targetUserId, handleTarget, addedBy, nextOwnedId >>
       ELSE /\ targetUserId' = [targetUserId EXCEPT ![nextOwnedId] = u]
            /\ addedBy' = [addedBy EXCEPT ![nextOwnedId] = u]
            /\ handleTarget' =
                 [handleTarget EXCEPT ![nextOwnedId] =
                    IF armed THEN u ELSE NoUserId]
            /\ nextOwnedId' = nextOwnedId + 1
  /\ UNCHANGED deliveries
  /\ UNCHANGED << chatVars, taskVars, cronVars, notRcpt >>

\* cronTool.execute, actions update and wake, by any caller: the UPDATE
\* statements name no target_user_id; scheduleJob on the reloaded row
RcptReschedule(u, j, armed) ==
  /\ targetUserId[j] # NoUserId
  /\ handleTarget' =
       [handleTarget EXCEPT ![j] =
          IF armed THEN targetUserId[j] ELSE NoUserId]
  /\ UNCHANGED << targetUserId, addedBy, nextOwnedId, deliveries >>
  /\ UNCHANGED << chatVars, taskVars, cronVars, notRcpt >>

\* cronTool.execute, action run, by any caller: executeJob on the row
RcptRun(u, j, ok) ==
  /\ u # NoUserId
  /\ targetUserId[j] # NoUserId
  /\ deliveries' = deliveredAfter(deliveries, j, targetUserId[j], u, ok)
  /\ UNCHANGED << targetUserId, handleTarget, addedBy, nextOwnedId >>
  /\ UNCHANGED << chatVars, taskVars, cronVars, notRcpt >>

\* the handle of the job fires: executeJob on the job object it holds
RcptFire(j, ok) ==
  /\ handleTarget[j] # NoUserId
  /\ deliveries' = deliveredAfter(deliveries, j, handleTarget[j], "handle", ok)
  /\ UNCHANGED << targetUserId, handleTarget, addedBy, nextOwnedId >>
  /\ UNCHANGED << chatVars, taskVars, cronVars, notRcpt >>

\* cronTool.execute, action remove, by any caller
RcptRemove(u, j) ==
  /\ targetUserId[j] # NoUserId
  /\ targetUserId' = [targetUserId EXCEPT ![j] = NoUserId]
  /\ handleTarget' = [handleTarget EXCEPT ![j] = NoUserId]
  /\ UNCHANGED << addedBy, nextOwnedId, deliveries >>
  /\ UNCHANGED << chatVars, taskVars, cronVars, notRcpt >>

InitRcpt ==
  /\ targetUserId = [j \in OwnedJobIds |-> NoUserId]
  /\ handleTarget = [j \in OwnedJobIds |-> NoUserId]
  /\ addedBy = [j \in OwnedJobIds |-> NoUserId]
  /\ deliveries = [j \in OwnedJobIds |-> {}]
  /\ nextOwnedId = 1

NextRcpt ==
  \/ \E u \in Callers, armed \in BOOLEAN : RcptAdd(u, armed)
  \/ \E u \in Callers, j \in OwnedJobIds, armed \in BOOLEAN :
       RcptReschedule(u, j, armed)
  \/ \E u \in Callers, j \in OwnedJobIds, ok \in BOOLEAN : RcptRun(u, j, ok)
  \/ \E j \in OwnedJobIds, ok \in BOOLEAN : RcptFire(j, ok)
  \/ \E u \in Callers, j \in OwnedJobIds : RcptRemove(u, j)

\* ------------------------------------------------------------------------
\* The timer of a one-shot job (cron.ts, scheduleJob): the instant of the
\* row, the instant the armed timer is due, and the instants it fired at
\* ------------------------------------------------------------------------

Instants == 1..MaxInstant

\* no instant: the empty sequence; an instant t is << t >>
NoTimer == << >>

\* setTimeout(callback, delay) of the runtime: a delay above the signed
\* 32-bit range of the timer, or below 1, is set to 1
timerDelay(delay) ==
  IF delay > TIMEOUT_MAX \/ delay < 1 THEN 1 ELSE delay

\* scheduleJob, schedule_type "once": delay = targetTime - Date.now();
\* delay <= 0 arms nothing, else setTimeout(..., delay)
armedTimer(targetTime, dateNow) ==
  IF targetTime - dateNow <= 0
    THEN NoTimer
    ELSE << dateNow + timerDelay(targetTime - dateNow) >>

\* cronTool.execute, action add, with a datetime schedule: past_date for
\* an instant not after Date.now(), else the row and scheduleJob(job)
OnceAdd(at) ==
  /\ onceDue = NoTimer
  /\ at > wallClock
  /\ onceDue' = << at >>
  /\ timerDue' = armedTimer(at, wallClock)
  /\ UNCHANGED << wallClock, timerFirings, ranByHand >>
  /\ UNCHANGED << chatVars, taskVars, cronVars, notOnce >>

\* initCronJobs at a restart, and cronTool.execute wake: scheduleJob on the
\* row stops the timer and arms a new one from the row's instant
OnceReschedule ==
  /\ onceDue # NoTimer
  /\ timerDue' = armedTimer(onceDue[1], wallClock)
  /\ UNCHANGED << wallClock, onceDue, timerFirings, ranByHand >>
  /\ UNCHANGED << chatVars, taskVars, cronVars, notOnce >>

\* the callback of setTimeout runs, at or after the instant the timer is
\* due: executeJob(job), activeTasks.delete(job.id)
OnceFire ==
  /\ timerDue # NoTimer
  /\ wallClock >= timerDue[1]
  /\ timerFirings' = timerFirings \cup {wallClock}
  /\ timerDue' = NoTimer
  /\ UNCHANGED << wallClock, onceDue, ranByHand >>
  /\ UNCHANGED << chatVars, taskVars, cronVars, notOnce >>

\* cronTool.execute, action run: executeJob on the row, now
OnceRun ==
  /\ onceDue # NoTimer
  /\ ranByHand' = TRUE
  /\ UNCHANGED << wallClock, onceDue, timerDue, timerFirings >>
  /\ UNCHANGED << chatVars, taskVars, cronVars, notOnce >>

\* time passes
OnceTick ==
  /\ wallClock < MaxInstant
  /\ wallClock' = wallClock + 1
  /\ UNCHANGED << onceDue, timerDue, timerFirings, ranByHand >>
  /\ UNCHANGED << chatVars, taskVars, cronVars, notOnce >>

InitOnce ==
  /\ wallClock = 0
  /\ onceDue = NoTimer
  /\ timerDue = NoTimer
  /\ timerFirings = {}
  /\ ranByHand = FALSE

NextOnce ==
  \/ \E at \in Instants : OnceAdd(at)
  \/ OnceReschedule
  \/ OnceFire
  \/ OnceRun
  \/ OnceTick

\* ------------------------------------------------------------------------
\* One cache map of web-shared.ts under readCache and writeCache: the
\* entries in the order of their insertion, as a Map keeps them
\* ------------------------------------------------------------------------

\* ttlMs of a write, in ticks
CacheTtls == {-1, 0, CacheTtl}

\* the keys a read names: the key inserted first and a key never written
CacheKeys ==
  {nextCacheKey} \cup (IF cacheMap = << >> THEN {} ELSE {cacheMap[1].key})

\* the keys a write names: the key inserted last and a key never written
WrittenKeys ==
  {nextCacheKey}
    \cup (IF cacheMap = << >> THEN {} ELSE {cacheMap[Len(cacheMap)].key})

mapHas(m, key) == \E i \in 1..Len(m) : m[i].key = key

mapGet(m, key) == m[CHOOSE i \in 1..Len(m) : m[i].key = key]

\* Map.delete
mapDelete(m, key) == SelectSeq(m, LAMBDA e : e.key # key)

\* Map.set: a key already in the map keeps its place
mapSet(m, key, entry) ==
  IF mapHas(m, key)
    THEN [i \in 1..Len(m) |-> IF m[i].key = key THEN entry ELSE m[i]]
    ELSE Append(m, entry)

\* a write that evicts only above the capacity
atCapacity_above(size) == size > DEFAULT_CACHE_MAX_ENTRIES

\* writeCache: cache.size >= DEFAULT_CACHE_MAX_ENTRIES
atCapacity(size) == size >= DEFAULT_CACHE_MAX_ENTRIES

\* readCache: Date.now() > entry.expiresAt
expired(entry, dateNow) == dateNow > entry.expiresAt

\* readCache: what it returns
readCache(m, key, dateNow) ==
  IF ~mapHas(m, key) THEN "null"
  ELSE IF expired(mapGet(m, key), dateNow) THEN "null"
  ELSE "cached"

\* readCache: the map it leaves
afterRead(m, key, dateNow) ==
  IF mapHas(m, key) /\ expired(mapGet(m, key), dateNow)
    THEN mapDelete(m, key)
    ELSE m

\* writeCache: the map it leaves
afterWrite(m, key, ttlMs, dateNow) ==
  IF ttlMs <= 0 THEN m
  ELSE LET kept == IF atCapacity(Len(m)) /\ m # << >>
                     THEN mapDelete(m, m[1].key)
                     ELSE m
       IN mapSet(kept, key, [key |-> key, expiresAt |-> dateNow + ttlMs])

\* readCache(cache, key); the reads that delete are counted
CacheRead(key) ==
  /\ cacheMap' = afterRead(cacheMap, key, cacheNow)
  /\ staleReads' =
       IF cacheMap' # cacheMap THEN staleReads + 1 ELSE staleReads
  /\ staleReads' <= MaxStaleReads
  /\ UNCHANGED << cacheNow, nextCacheKey, evictions >>
  /\ UNCHANGED << chatVars, taskVars, cronVars, notCache >>

\* writeCache(cache, key, value, ttlMs); the writes that evict are counted
CacheWrite(key, ttlMs) ==
  /\ key = nextCacheKey => nextCacheKey < MaxCacheKeys
  /\ cacheMap' = afterWrite(cacheMap, key, ttlMs, cacheNow)
  /\ nextCacheKey' =
       IF key = nextCacheKey /\ ttlMs > 0
         THEN nextCacheKey + 1 ELSE nextCacheKey
  /\ evictions' =
       IF ttlMs > 0 /\ atCapacity(Len(cacheMap))
         THEN evictions + 1 ELSE evictions
  /\ UNCHANGED << cacheNow, staleReads >>
  /\ UNCHANGED << chatVars, taskVars, cronVars, notCache >>

\* time passes, by more than the time to live of the entries
CacheTick ==
  /\ cacheNow + CacheTtl + 1 <= MaxCacheNow
  /\ cacheNow' = cacheNow + CacheTtl + 1
  /\ UNCHANGED << cacheMap, nextCacheKey, staleReads, evictions >>
  /\ UNCHANGED << chatVars, taskVars, cronVars, notCache >>

InitCache ==
  /\ cacheMap = << >>
  /\ cacheNow = 0
  /\ nextCacheKey = 1
  /\ staleReads = 0
  /\ evictions = 0

NextCache ==
  \/ \E key \in CacheKeys : CacheRead(key)
  \/ \E key \in WrittenKeys, ttlMs \in CacheTtls : CacheWrite(key, ttlMs)
  \/ CacheTick

InitSide == InitHook /\ InitGate /\ InitWeb /\ InitMedia /\ InitStat /\ InitFetch /\ InitRcpt /\ InitOnce /\ InitCache

InitAll == InitChat /\ InitTasks /\ InitCron /\ InitSide

NoProvider == [gemini |-> FALSE, ollama |-> FALSE, anthropic |-> FALSE]

\* runs with many tasks of one model and few faults
CapacityLimits ==
  [tasks |-> MaxTasks, faults |-> MaxFaults, models |-> {"null"}]

\* runs with few tasks, more faults and both kinds of model input
LifeCycleLimits ==
  [tasks |-> MaxLifeTasks, faults |-> MaxLifeFaults, models |-> ModelOverrides]

InitSpecChat ==
  env \in EnvChoices /\ limits = CapacityLimits /\ foreignKeys = TRUE /\ InitAll
\* one provider configured, so no fallback
InitSpecTurns ==
  /\ env \in {e \in EnvChoices :
                Cardinality({k \in Providers : e[k]}) = 1}
  /\ limits = CapacityLimits
  /\ foreignKeys = TRUE
  /\ InitAll
InitSpecTasks ==
  /\ env \in TaskEnvChoices
  /\ limits = CapacityLimits
  /\ foreignKeys = TRUE
  /\ InitAll
InitSpecLifeCycle ==
  /\ env \in TaskEnvChoices
  /\ limits = LifeCycleLimits
  /\ foreignKeys = TRUE
  /\ InitAll
\* the database connection comes from memory/store: foreign keys may or may
\* not be enforced on it
InitSpecCron ==
  /\ env = NoProvider
  /\ limits = CapacityLimits
  /\ foreignKeys \in BOOLEAN
  /\ InitAll

SpecChat == InitSpecChat /\ [][NextChat]_vars

SpecTurns == InitSpecTurns /\ [][NextTurns]_vars

SpecTasks == InitSpecTasks /\ [][NextTasks]_vars

SpecLifeCycle == InitSpecLifeCycle /\ [][NextTasks]_vars

SpecCron == InitSpecCron /\ [][NextCron]_vars

InitSpecHook ==
  /\ env = NoProvider
  /\ limits = CapacityLimits
  /\ foreignKeys = TRUE
  /\ InitAll

SpecHook == InitSpecHook /\ [][NextHook]_vars

\* any value of OWNER_USER_ID at start
InitSpecGate ==
  /\ env = NoProvider
  /\ limits = CapacityLimits
  /\ foreignKeys = TRUE
  /\ InitChat /\ InitTasks /\ InitCron /\ InitHook /\ InitWeb /\ InitMedia /\ InitStat /\ InitFetch /\ InitRcpt /\ InitOnce /\ InitCache
  /\ ownerEnv \in OwnerValues \cup {Unset}
  /\ configOverrides = [k \in ConfigKeys |-> NoOverride]
  /\ gatePc = "up"
  /\ pushed = << >>
  /\ sessionRows = << >>
  /\ gateReply = NoCall

SpecGate == InitSpecGate /\ [][NextGate]_vars

InitSpecWeb ==
  /\ env = NoProvider
  /\ limits = CapacityLimits
  /\ foreignKeys = TRUE
  /\ InitAll

SpecWeb == InitSpecWeb /\ [][NextWeb]_vars

InitSpecMedia ==
  /\ env = NoProvider
  /\ limits = CapacityLimits
  /\ foreignKeys = TRUE
  /\ InitAll

SpecMedia == InitSpecMedia /\ [][NextMedia]_vars

InitSpecStat ==
  /\ env = NoProvider
  /\ limits = CapacityLimits
  /\ foreignKeys = TRUE
  /\ InitAll

SpecStat == InitSpecStat /\ [][NextStat]_vars

InitSpecFetch ==
  /\ env = NoProvider
  /\ limits = CapacityLimits
  /\ foreignKeys = TRUE
  /\ InitAll

SpecFetch == InitSpecFetch /\ [][NextFetch]_vars

InitSpecRcpt ==
  /\ env = NoProvider
  /\ limits = CapacityLimits
  /\ foreignKeys = TRUE
  /\ InitAll

SpecRcpt == InitSpecRcpt /\ [][NextRcpt]_vars

InitSpecOnce ==
  /\ env = NoProvider
  /\ limits = CapacityLimits
  /\ foreignKeys = TRUE
  /\ InitAll

SpecOnce == InitSpecOnce /\ [][NextOnce]_vars

InitSpecCache ==
  /\ env = NoProvider
  /\ limits = CapacityLimits
  /\ foreignKeys = TRUE
  /\ InitAll

SpecCache == InitSpecCache /\ [][NextCache]_vars

\* ------------------------------------------------------------------------
\* Properties of the agent loop and the tool registry (SpecChat)
\* ------------------------------------------------------------------------

\* C1: one exchange makes at most 10 model calls, on every provider path.
C1_AtMostTenModelCalls == modelCalls <= MAX_LOOPS

\* C9 as stated: a turn that carries image, video or audio media is never
\* retried on the secondary provider.
C9_NoFallbackWithMedia == fellBack => media \notin BinaryMedia

\* C9 amended: when chatGemini fails, the exchange is retried on Ollama
\* exactly when OLLAMA_MODEL is configured, with or without media, and the
\* media is never sent to Ollama.
C9_FallbackIffSecondaryConfigured ==
  /\ geminiFailed => (fellBack <=> env.ollama)
  /\ fellBack => (geminiFailed /\ chatPc \in {"ollama", "replied", "threw"})
  /\ "ollama" \notin mediaSent

C9_Witness ==
  /\ fellBack
  /\ media \in BinaryMedia
  /\ chatPc = "ollama"
  /\ mediaSent = {"gemini"}

\* C10: for a tool name that is not in the catalog, executeTool resolves to
\* the not-found string, invokes no handler and does not reject.
C10_UnknownToolNotFound ==
  (lastTool # NoTool /\ \A i \in 1..Len(allTools) : allTools[i] # lastTool.name)
    => /\ lastTool.result = <<"Error: tool \"", lastTool.name, "\" not found">>
       /\ ~lastTool.invoked
       /\ ~lastTool.rejected

C10_Witness ==
  /\ lastTool.name = "no_such_tool"
  /\ chatPc \in Providers
  /\ modelCalls > 0

\* C11: for every registered tool whose handler throws, executeTool resolves
\* (it does not reject) to a string that contains the handler's error message.
C11_HandlerErrorContained ==
  \A i \in 1..Len(appended) :
    (findTool(requested[i].name) # Undefined /\ requested[i].handler = "throws")
      => /\ ~appended[i].rejected
         /\ appended[i].invoked
         /\ \E k \in 1..Len(appended[i].result) :
              appended[i].result[k] = HandlerError

C11_Witness ==
  /\ Len(appended) = 1
  /\ requested[1].name = "cron"
  /\ requested[1].handler = "throws"
  /\ chatPc \in Providers

\* C12: every tool call requested by a model turn is executed exactly once
\* and its result is in the conversation before the next model call; a final
\* text turn after it ends the exchange with that text.
C12_RequestedCallsExecutedOnce ==
  /\ Len(appended) = Len(requested)
  /\ \A i \in 1..Len(appended) :
       appended[i] = executeTool(requested[i].name, requested[i].handler)

\* C13: the results of the tool calls of one model turn are appended to the
\* conversation in the order in which the model requested them, in all three
\* provider loops.
C13_ResultsInRequestOrder ==
  /\ Len(appended) <= Len(requested)
  /\ \A i \in 1..Len(appended) :
       /\ appended[i].name = requested[i].name
       /\ appended[i].result =
            executeTool(requested[i].name, requested[i].handler).result

C13_Witness ==
  /\ Len(appended) = 2
  /\ appended[1].name = "subagents"
  /\ appended[2].name = "cron"
  /\ chatPc \in Providers
  /\ modelCalls > 1

\* C20: on every provider, a response without candidate or choice, or with
\* empty content and no tool call, ends the exchange with the reply
\* "(no response)" and no error leaves the loop.
C20_EmptyResponseIsNoResponse ==
  [][/\ \A r \in GeminiResponses \cap {"no_candidate", "empty"} :
          GeminiTurn(r, << >>)
            => chatPc' = "replied" /\ reply' = "(no response)"
     /\ \A r \in OllamaResponses \cap {"no_candidate", "empty"} :
          OllamaTurn(r, << >>)
            => chatPc' = "replied" /\ reply' = "(no response)"
     /\ \A r \in AnthropicResponses \cap {"no_candidate", "empty"} :
          AnthropicTurn(r, << >>)
            => chatPc' = "replied" /\ reply' = "(no response)"]_vars

\* C26: chat() restarts the exchange on the secondary provider only when the
\* primary provider failed before any tool call of the exchange was executed;
\* once a tool handler has run, there is no restart
C26_FallbackOnlyBeforeTools ==
  [][(~fellBack /\ fellBack') => (~toolRan /\ toolSteps = 0)]_vars

\* a restart on the secondary provider after a handler of the catalog ran
C26_Counterexample ==
  fellBack /\ chatPc = "ollama" /\ toolRan /\ toolSteps = 1 /\ modelCalls = 2

\* C27: in the Gemini and Ollama loops, when every model call of the exchange
\* came back with tool calls, the loop makes exactly 10 model calls and 10
\* tool-execution steps, makes no further call, and returns "(no response)"
\* without raising
C27_TenToolTurnsThenNoResponse ==
  [][(chatPc \in {"gemini", "ollama"} /\ toolSteps = modelCalls)
       => /\ (chatPc' = "replied" /\ modelCalls' = modelCalls)
               => /\ modelCalls = MAX_LOOPS
                  /\ toolSteps' = MAX_LOOPS
                  /\ reply' = "(no response)"
          /\ modelCalls = MAX_LOOPS
               => /\ modelCalls' = modelCalls
                  /\ toolSteps' = toolSteps
                  /\ chatPc' \in {chatPc, "replied"}]_vars

C27_Witness ==
  /\ chatPc = "replied"
  /\ reply = "(no response)"
  /\ modelCalls = MAX_LOOPS
  /\ toolSteps = MAX_LOOPS
  /\ toolRan

\* C34: when the loop test of the Gemini or Ollama loop fails, the loop
\* returns the text the model produced next to its tool calls in some turn
\* of the exchange, and "(no response)" only when no turn had text
C34_PartialTextOnExhaustion ==
  [][(GeminiExit \/ OllamaExit)
       => (reply' = "(no response)" <=> ~partialText)]_vars

\* C35: in the Ollama loop, a reply without structured tool calls whose text
\* embeds a call runs that call when its arguments parse and its name is a
\* tool of the catalog: the one result is appended and the loop goes on.
\* When the name is unknown or the arguments do not parse, the reply is the
\* final text and no tool is executed
C35_EmbeddedCallNeedsKnownName ==
  [][(chatPc = "ollama" /\ modelCalls' = modelCalls + 1)
     => \A r \in {"text_tool_call", "text_tool_call_bad_json"} :
       \A c \in SingleCalls :
         OllamaTurn(r, c)
           => IF r = "text_tool_call"
                   /\ \E i \in 1..Len(allTools) : allTools[i] = c[1].name
                THEN /\ chatPc' = "ollama"
                     /\ requested' = c
                     /\ Len(appended') = 1
                     /\ appended'[1].name = c[1].name
                     /\ lastTool' = appended'[1]
                     /\ toolSteps' = toolSteps + 1
                ELSE /\ chatPc' = "replied"
                     /\ reply' = "text"
                     /\ appended' = << >>
                     /\ UNCHANGED << lastTool, toolSteps, toolRan >>]_vars

\* an embedded call of a tool of the catalog has run and the loop goes on
C35_Witness ==
  /\ chatPc = "ollama"
  /\ textCall
  /\ modelCalls = 1
  /\ toolSteps = 1
  /\ toolRan
  /\ Len(requested) = 1
  /\ Len(appended) = 1
  /\ ~fellBack
  /\ AI_PROVIDER = "ollama"

\* ------------------------------------------------------------------------
\* Properties of the background tasks (SpecTasks)
\* ------------------------------------------------------------------------

\* C2: a task has a handle in runningTasks if and only if its persisted row
\* has status running.
C2_HandleIffRunning ==
  \A t \in TaskIds : (t \in runningTasks) <=> (taskRow[t].status = "running")

\* C3: when the timeout fires while the model call is in flight, the step in
\* which the task body handles the abort leaves the row cancelled or failed,
\* with completed_at set.
C3_TimedOutTaskLeavesRunning ==
  [][\A t \in TaskIds :
       (aborted[t] = "timeout" /\ TaskFetchAborted(t))
         => /\ taskRow'[t].status \in {"cancelled", "failed"}
            /\ taskRow'[t].completed_at = "set"]_vars

\* C4: for every owner, at most 5 persisted rows have status running.
C4_AtMostFiveRunningRows ==
  \A u \in Users : Cardinality(RunningRows(u)) <= MAX_CHILDREN

\* C5: a spawn request of an owner who has 5 running tasks returns
\* limit_exceeded, inserts no row and registers no handle.
C5_SpawnAtCapRejected ==
  [][\A u \in Users :
       (Cardinality(RunningRows(u)) >= MAX_CHILDREN /\ Spawn(u))
         => /\ spawnReturn(u) = "limit_exceeded"
            /\ UNCHANGED << taskRow, runningTasks >>]_vars

\* C6: cancel or steer on a task whose persisted status is completed returns
\* false / not found and leaves the row unchanged.
C6_CancelCompletedIsNoop ==
  [][\A t \in TaskIds :
       (taskRow[t].status = "completed" /\ (KillTask(t) \/ SteerTask(t)))
         => /\ ~cancelTaskReturn(t)
            /\ ~steerTaskReturn(t)
            /\ taskRow'[t] = taskRow[t]]_vars

\* C14: steer on a running task marks the original row cancelled and removes
\* its handle, and creates a new task with a different id, the same owner and
\* model override, status running, a registered handle, and instructions that
\* contain both the original instructions and the new ones.
C14_SteerRestartsRunningTask ==
  [][\A t \in TaskIds :
       (taskRow[t].status = "running" /\ SteerTask(t))
         => /\ steerTaskReturn(t)
            /\ taskRow'[t].status = "cancelled"
            /\ t \notin runningTasks'
            /\ nextTaskId # t
            /\ taskRow[nextTaskId] = NoRow
            /\ taskRow'[nextTaskId].user_id = taskRow[t].user_id
            /\ taskRow'[nextTaskId].model = taskRow[t].model
            /\ taskRow'[nextTaskId].status = "running"
            /\ nextTaskId \in runningTasks'
            /\ IsInfix(taskRow[t].task, taskRow'[nextTaskId].task)
            /\ IsInfix(<< SteerMessage >>, taskRow'[nextTaskId].task)]_vars

\* C15: kill all by user u cancels exactly the running tasks of u (each row
\* becomes cancelled and its handle is removed), reports their count, and
\* leaves every other task's row and every other owner's handles unchanged.
C15_KillAllCancelsOwnRunning ==
  [][\A u \in Users :
       KillAll(u)
         => /\ \A t \in RunningRows(u) :
                 taskRow'[t].status = "cancelled" /\ t \notin runningTasks'
            /\ killedCount(u) = Cardinality(RunningRows(u))
            /\ \A t \in TaskIds \ RunningRows(u) : taskRow'[t] = taskRow[t]
            /\ \A t \in TaskIds :
                 taskRow[t].user_id # u
                   => ((t \in runningTasks') <=> (t \in runningTasks))]_vars

\* C24: once the row of a task has status completed, failed or cancelled,
\* no step changes its status or its result.
C24_TerminalRowsImmutable ==
  [][\A t \in TaskIds :
       taskRow[t].status \in {"completed", "failed", "cancelled"}
         => /\ taskRow'[t].status = taskRow[t].status
            /\ taskRow'[t].result = taskRow[t].result]_vars

\* C31: when the body of a background task fails other than by an abort (the
\* model call rejects, or no provider is configured), its row is marked
\* failed with the error text, and the handle is removed once the failure
\* notification has settled; spawn has returned accepted whatever happens
\* in the body. A push that settles, resolved or rejected, leaves every row
\* as it was and ends the body without raising
C31_TaskFailuresContained ==
  [][\A t \in TaskIds :
       /\ (taskPc[t] # "pushFail" /\ taskPc'[t] = "pushFail")
            => /\ taskRow'[t].status = "failed"
               /\ taskRow'[t].result = "error"
               /\ taskRow'[t].completed_at = "set"
       /\ TaskFetchError(t)
            => /\ taskRow[t].status = "running" => t \in runningTasks'
               /\ \A o \in TaskIds \ {t} : taskRow'[o] = taskRow[o]
       /\ TaskPushSettles(t)
            => /\ taskRow' = taskRow
               /\ taskPc'[t] = "done"
               /\ t \notin runningTasks']_vars

C31_Witness ==
  \E t \in TaskIds :
    /\ taskPc[t] = "done"
    /\ taskRow[t].status = "failed"
    /\ taskRow[t].result = "error"
    /\ t \notin runningTasks
    /\ aborted[t] = "no"
    /\ getActiveProvider # "none"

\* C37: a kill or a steer addressed to a task id by a user other than the
\* owner of the task leaves the task as it is: its row, its handle and its
\* signal are unchanged and no task is started from it
C37_OtherUsersTaskUntouched ==
  [][\A u \in Users : \A t \in TaskIds :
       (taskRow[t] # NoRow /\ taskRow[t].user_id # u
          /\ (KillBy(u, t) \/ SteerBy(u, t)))
         => /\ taskRow'[t] = taskRow[t]
            /\ aborted'[t] = aborted[t]
            /\ (t \in runningTasks') <=> (t \in runningTasks)
            /\ nextTaskId' = nextTaskId]_vars

\* ------------------------------------------------------------------------
\* Properties of the scheduler (SpecCron)
\* ------------------------------------------------------------------------

\* C7: a job has a handle in activeTasks if and only if its persisted row
\* has enabled = 1.
C7_HandleIffEnabled ==
  \A j \in JobIds :
    (activeTasks[j] # NoHandle) <=> (jobRow[j] # NoJob /\ jobRow[j].enabled = 1)

\* C8: an update whose new schedule add would reject returns an error and
\* leaves the job's row and handle unchanged.
C8_UpdateValidatesAsAdd ==
  [][\A j \in JobIds, e \in OptBool, d \in OptBool, s \in ScheduleInputs,
        o \in BOOLEAN :
       (/\ s.shape # "empty"
        /\ addError(s) # "ok"
        /\ CronUpdate(j, e, d, s, o))
         => /\ updateReturn(j, e, d, s, o) # "success"
            /\ UNCHANGED << jobRow, activeTasks >>]_vars

\* C16: an add whose schedule is an ISO-like date that does not parse or is
\* not strictly in the future, or a cron expression that cron.validate refuses, returns an
\* error, creates no row and arms no handle.
C16_InvalidAddRejected ==
  [][\A s \in ScheduleInputs, d \in BOOLEAN :
       (/\ \/ s.shape = "date" /\ (~s.valid \/ s.time <= now)
           \/ s.shape = "expr" /\ ~s.valid
        /\ CronAdd(s, d))
         => /\ lastReply' \in {"invalid_date", "past_date", "invalid_schedule"}
            /\ UNCHANGED << jobRow, activeTasks, live, nextJobId >>]_vars

C16_Witness ==
  /\ lastReply = "past_date"
  /\ now > 0
  /\ \A j \in JobIds :
       jobRow[j] = NoJob /\ activeTasks[j] = NoHandle /\ live[j] = << >>

\* C17: an add with a cron expression that cron.validate accepts succeeds;
\* the new job is enabled, of kind cron (recurring), has an armed handle, and
\* list reports it with isScheduled = true.
C17_ValidCronAddScheduled ==
  [][\A s \in ScheduleInputs, d \in BOOLEAN :
       (s.shape = "expr" /\ s.valid /\ CronAdd(s, d))
         => /\ lastReply' = "success"
            /\ jobRow[nextJobId] = NoJob
            /\ jobRow'[nextJobId] # NoJob
            /\ formatJob(jobRow'[nextJobId], activeTasks', nextJobId) =
                 [enabled |-> TRUE, scheduleType |-> "cron", runCount |-> 0,
                  isScheduled |-> TRUE]
            /\ activeTasks'[nextJobId].kind = "cron"
            /\ live'[nextJobId] = << activeTasks'[nextJobId] >>]_vars

C17_Witness ==
  /\ lastReply = "success"
  /\ nextJobId = 2
  /\ firings = 0
  /\ jobRow[1].schedule.shape = "expr"
  /\ formatJob(jobRow[1], activeTasks, 1) =
       [enabled |-> TRUE, scheduleType |-> "cron", runCount |-> 0,
        isScheduled |-> TRUE]
  /\ live[1] = << activeTasks[1] >>

\* C18: every firing, started by a handle or by run, appends exactly one row
\* to cron_runs for its job, with status success when the push resolved and
\* error when it rejected, and, if the job's row exists afterwards, leaves
\* its run_count one higher.
C18_FiringAppendsOneRun ==
  [][\A j \in JobIds :
       /\ JobPushOk(j) =>
            /\ cronRuns'[j] = Append(cronRuns[j], "success")
            /\ jobRow'[j] # NoJob
                 => jobRow'[j].run_count = jobRow[j].run_count + 1
       /\ JobPushFails(j) =>
            /\ cronRuns'[j] = Append(cronRuns[j], "error")
            /\ jobRow'[j] # NoJob
                 => jobRow'[j].run_count = jobRow[j].run_count + 1]_vars

\* C19: a job id never has more than one armed handle (timer or node-cron
\* task); wake on a job that is already enabled replaces its handle.
C19_AtMostOneLiveHandle == \A j \in JobIds : Len(live[j]) <= 1

C19_Witness ==
  /\ lastReply = "already_enabled"
  /\ \E j \in JobIds :
       /\ live[j] = << activeTasks[j] >>
       /\ activeTasks[j] # NoHandle

\* C28: a firing whose push fails leaves the enabled flag of the job and its
\* handle in activeTasks as they were before the firing, for recurring and
\* one-shot jobs alike. The firing is the step that starts executeJob (from
\* a timer, a node-cron tick or run) and the step that settles the rejected
\* push; every started firing can end in a rejected push
C28_FailedFiringKeepsEnabledAndHandle ==
  [][\A j \in JobIds :
       ((inFlight[j] = NoSnapshot /\ inFlight'[j] # NoSnapshot) \/ JobPushFails(j))
         => /\ activeTasks'[j] = activeTasks[j]
            /\ (jobRow[j] = NoJob) <=> (jobRow'[j] = NoJob)
            /\ jobRow[j] # NoJob
                 => /\ jobRow'[j].enabled = jobRow[j].enabled
                    /\ jobRow'[j].schedule = jobRow[j].schedule
                    /\ jobRow'[j].schedule_type = jobRow[j].schedule_type
                    /\ jobRow'[j].delete_after_run = jobRow[j].delete_after_run]_vars

\* C29: when the push of a firing resolves and the fired job is one-shot or
\* flagged delete_after_run, afterwards the row is deleted or exists with
\* enabled = 0, and in both cases the job has no handle, in activeTasks or
\* armed; when the fired job is recurring and not flagged, its enabled flag
\* and its handle are unchanged
C29_SuccessfulFiringCleansUp ==
  [][\A j \in JobIds :
       JobPushOk(j)
         => IF inFlight[j].schedule_type = "once"
                 \/ inFlight[j].delete_after_run = 1
              THEN /\ jobRow'[j] = NoJob \/ jobRow'[j].enabled = 0
                   /\ activeTasks'[j] = NoHandle
                   /\ live'[j] = << >>
              ELSE /\ activeTasks'[j] = activeTasks[j]
                   /\ live'[j] = live[j]
                   /\ (jobRow[j] = NoJob) <=> (jobRow'[j] = NoJob)
                   /\ jobRow[j] # NoJob
                        => jobRow'[j].enabled = jobRow[j].enabled]_vars

C29_Witness ==
  /\ jobRow[1] # NoJob
  /\ jobRow[1].schedule_type = "once"
  /\ jobRow[1].enabled = 0
  /\ jobRow[1].run_count = 1
  /\ cronRuns[1] = << "success" >>
  /\ inFlight[1] = NoSnapshot
  /\ activeTasks[1] = NoHandle
  /\ live[1] = << >>

\* C30: the rows of cron_runs of a job only grow: no step modifies or deletes
\* a row already appended, so what runs returns for the job keeps every
\* earlier row, also after remove and after the self-deletion of a
\* delete_after_run job
C30_RunHistoryOnlyGrows ==
  [][\A j \in JobIds :
       /\ Len(cronRuns'[j]) >= Len(cronRuns[j])
       /\ SubSeq(cronRuns'[j], 1, Len(cronRuns[j])) = cronRuns[j]]_vars

\* C32: a remove of an existing job returns success and leaves the job with
\* no row, no handle in activeTasks and no armed timer or node-cron task; a
\* job without a row has no handle of any kind, so no firing of it starts
\* after the removal; a remove of an id that has no row returns not_found
\* and changes nothing else
C32_RemoveDisarmsAndDeletes ==
  [][\A j \in JobIds :
       /\ (jobRow[j] # NoJob /\ CronRemove(j))
            => /\ lastReply' = "success"
               /\ jobRow'[j] = NoJob
               /\ activeTasks'[j] = NoHandle
               /\ live'[j] = << >>
       /\ (jobRow[j] = NoJob /\ CronRemove(j))
            => /\ lastReply' = "not_found"
               /\ UNCHANGED << now, jobRow, activeTasks, inFlight, nextJobId,
                               live, cronRuns, firings, foreignKeys >>
       /\ jobRow[j] = NoJob
            => /\ activeTasks[j] = NoHandle
               /\ live[j] = << >>
               /\ inFlight[j] = NoSnapshot => inFlight'[j] = NoSnapshot]_vars

\* a job that had a handle and never fired has been removed
C32_Witness ==
  /\ lastReply = "success"
  /\ jobRow[1] = NoJob
  /\ nextJobId = 2
  /\ firings = 0
  /\ now > 0
  /\ activeTasks[1] = NoHandle
  /\ live[1] = << >>

\* ------------------------------------------------------------------------
\* Properties of the webhook handler (SpecHook)
\* ------------------------------------------------------------------------

\* C21: for every message event whose chat() call rejects, handleWebhook
\* attempts exactly one reply, which carries an error text; handleWebhook
\* never rejects, and it goes on to every later event of the batch.
C21_ChatErrorAnsweredOnce ==
  /\ hookPc # "rejected"
  /\ \A i \in 1..Len(batch) :
       (hookLog[i].chat = "threw" /\ (i < eventIdx \/ hookPc = "returned"))
         => /\ Len(hookLog[i].replies) = 1
            /\ hookLog[i].replies[1] \in ErrorTexts
  /\ hookPc = "returned"
       => \A i \in 1..Len(batch) :
            /\ hookLog[i].chat # "none"
            /\ (batch[i] = "message") <=> (hookLog[i].chat # "skipped")

C21_Witness ==
  /\ hookPc = "returned"
  /\ Len(batch) = 3
  /\ hookLog[1].chat = "threw"
  /\ hookLog[1].replies = << "AI quota" >>
  /\ hookLog[2].chat = "returned"
  /\ hookLog[2].replies = << "answer" >>
  /\ hookLog[3].chat = "threw"

\* ------------------------------------------------------------------------
\* Properties of the owner-only tools (SpecGate)
\* ------------------------------------------------------------------------

\* C22: when OWNER_USER_ID holds an allowlist, a gateway or sessions_send
\* call whose caller has no id or an id that is not an entry of the list
\* returns forbidden and changes nothing: no override, no restart, no push,
\* no history row.
C22_NonOwnerForbidden ==
  [][(/\ ~ProcessExits
      /\ ownerEnv # Unset
      /\ \E i \in 1..Len(ownerEnv) : trim(ownerEnv[i]) # ""
      /\ \A i \in 1..Len(ownerEnv) : trim(ownerEnv[i]) # gateReply'.caller)
       => /\ gateReply'.result = "forbidden"
          /\ UNCHANGED << ownerEnv, configOverrides, gatePc, pushed,
                          sessionRows >>]_vars

C22_Witness ==
  /\ gateReply = [tool |-> "gateway", caller |-> "u2",
                  result |-> "forbidden"]
  /\ ownerEnv = << "u1" >>
  /\ configOverrides["GEMINI_MODEL"] = ModelValue
  /\ Len(pushed) = 1
  /\ gatePc = "up"

\* ------------------------------------------------------------------------
\* Properties of the web caches (SpecWeb)
\* ------------------------------------------------------------------------

\* C23: a web_search or web_fetch request that repeats one whose result was
\* cached is served from the cache while less than 5 minutes have passed
\* since the result was fetched, and is not served from the cache once more
\* than 5 minutes have passed.
C23_CachedForFiveMinutes ==
  [][\A t \in WebTools, raw \in RawKeys, ok \in BOOLEAN :
       (cache[t] # NoEntry /\ WebRequest(t, raw, ok))
         => /\ nowMs - cache[t].insertedAt < 5 * 60000 => lastWeb'.cached
            /\ nowMs - cache[t].insertedAt > 5 * 60000 => ~lastWeb'.cached]_vars

\* ------------------------------------------------------------------------
\* Properties of the media results of chat() (SpecMedia)
\* ------------------------------------------------------------------------

\* C25: the audioUrl and imageUrl of the ChatResult of a user's exchange are
\* the ones the tools of that same exchange produced: no url of another
\* user's exchange is attached, and none of its own is lost.
C25_MediaStaysInItsExchange ==
  \A u \in Users : exPc[u] = "done" => chatResult[u] = madeMedia[u]

\* ------------------------------------------------------------------------
\* Properties of the status query (SpecStat)
\* ------------------------------------------------------------------------

\* C33: a status query on the id of any task that was spawned finds it: from
\* the running entry while the task has one, from its row afterwards,
\* however many tasks have been created since
C33_StatusFindsEveryTask ==
  statusReply.tool = "status"
    => /\ statusReply.answer # "not_found"
       /\ statusReply.target \in registry => statusReply.answer = "running"

\* ------------------------------------------------------------------------
\* Properties of the guarded fetch (SpecFetch)
\* ------------------------------------------------------------------------

\* C36: web_fetch sends no request to a url that isPrivateUrl classifies as
\* private, the first url and every redirect target alike; it sends at most
\* one request more than DEFAULT_FETCH_MAX_REDIRECTS, and the redirect after
\* the last of them ends the call with the too-many-redirects error
C36_NoPrivateRequestAndThreeRedirects ==
  /\ \A k \in 1..Len(requests) : ~isPrivateUrl(requests[k])
  /\ Len(requests) <= DEFAULT_FETCH_MAX_REDIRECTS + 1
  /\ hop <= DEFAULT_FETCH_MAX_REDIRECTS + 1
  /\ hop > DEFAULT_FETCH_MAX_REDIRECTS
       => fetchPc = "done" /\ fetchResult = "too_many_redirects"
  /\ fetchResult = "ssrf_blocked" => Len(requests) = hop

\* three redirects were followed and the fourth ended the call
C36_Witness ==
  /\ fetchPc = "done"
  /\ fetchResult = "too_many_redirects"
  /\ Len(requests) = 4
  /\ hop = 4

\* a redirect to a private address was refused after two public requests
C36_WitnessBlocked ==
  /\ fetchResult = "ssrf_blocked"
  /\ Len(requests) = 2
  /\ hop = 2

\* ------------------------------------------------------------------------
\* Properties of the recipient of a job (SpecRcpt)
\* ------------------------------------------------------------------------

\* C38: the message of a job is sent only to the user who added the job: the
\* target_user_id of the row and of the job object in the handle stay the
\* one set by add through update, wake and run by any caller, and a run
\* started by another user is sent to the user who added the job
C38_DeliveredToCreatorOnly ==
  \A j \in OwnedJobIds :
    /\ \A d \in deliveries[j] : d.to = addedBy[j]
    /\ targetUserId[j] \in {addedBy[j], NoUserId}
    /\ handleTarget[j] \in {addedBy[j], NoUserId}

\* a job added by u1 and run by u2 was sent to u1
C38_Witness ==
  /\ addedBy[1] = "u1"
  /\ [to |-> "u1", by |-> "u2"] \in deliveries[1]
  /\ [to |-> "u1", by |-> "handle"] \in deliveries[1]

\* ------------------------------------------------------------------------
\* Properties of the timer of a one-shot job (SpecOnce)
\* ------------------------------------------------------------------------

\* C39: the timer of a one-shot job never fires before the instant of the
\* job, however far ahead that instant is, delays above the range of the
\* timer included; only an explicit run sends earlier
C39_NeverFiresBeforeItsInstant ==
  \A t \in timerFirings : onceDue # NoTimer /\ t >= onceDue[1]

\* ------------------------------------------------------------------------
\* Properties of a cache map (SpecCache)
\* ------------------------------------------------------------------------

\* C40: after any writeCache and readCache calls the map holds at most 100
\* entries, a write at capacity having removed the key inserted first; a
\* write with ttl <= 0 leaves the map as it was; readCache on an entry
\* whose expiry has passed returns null and deletes the entry
C40_CacheBoundedAndFresh ==
  [][/\ Len(cacheMap') <= DEFAULT_CACHE_MAX_ENTRIES
     /\ \A key \in CacheKeys \cup WrittenKeys :
          /\ (CacheRead(key) /\ mapHas(cacheMap, key)
                 /\ cacheNow > mapGet(cacheMap, key).expiresAt)
               => /\ readCache(cacheMap, key, cacheNow) = "null"
                  /\ ~mapHas(cacheMap', key)
          /\ \A ttlMs \in CacheTtls :
               CacheWrite(key, ttlMs)
                 => /\ ttlMs <= 0 => cacheMap' = cacheMap
                    /\ (ttlMs > 0 /\ Len(cacheMap) = DEFAULT_CACHE_MAX_ENTRIES
                          /\ key # cacheMap[1].key)
                         => ~mapHas(cacheMap', cacheMap[1].key)]_vars

\* a full map took a write that evicted, after a read had deleted a stale
\* entry
C40_Witness ==
  /\ evictions > 0
  /\ staleReads > 0
  /\ Len(cacheMap) = DEFAULT_CACHE_MAX_ENTRIES

====
